---- MODULE Spec2Model ----
(***************************************************************************)
(* TrackAppointments attribution tracker: the booking matcher, the         *)
(* dashboard and the campaign report of backend/main.py, the confidence    *)
(* scorer and the platform fetches of                                      *)
(* backend/app/services/real_data_service.py, the integration status of    *)
(* backend/app/api/v1/endpoints/data_integration.py, the webhook service   *)
(* of backend/app/services/square_booking_service.py, the OAuth state of   *)
(* backend/app/api/v1/endpoints/oauth.py and the business settings of      *)
(* backend/app/api/v1/endpoints/business.py.                               *)
(*                                                                         *)
(* Numbers: attribution weights are kept in thousandths (0.333 is 333),    *)
(* raw weights in hundredths (0.10 is 10), scores and confidences in       *)
(* tenths (98.5 is 985).                                                   *)
(***************************************************************************)
EXTENDS Integers, Sequences, FiniteSets, TLC

VARIABLES
    tracked,      \* log of the interactions track_interaction answered "tracked"
    interaction,  \* response of the last track_interaction call
    lookup,       \* recorded interactions of the identifier when track_booking last ran
    booking,      \* response of the last track_booking call
    now,          \* datetime.utcnow(), in whole days since the process started
    events,       \* event list last handed to calculate_attribution_confidence
    scored,       \* what calculate_attribution_confidence returned for events
    prior,        \* what it returns for the list without its last event
    tokens,       \* platforms whose *_ACCESS_TOKEN environment variable is set
    pc,           \* where get_all_platform_data stands: "idle", "gathering", "returned"
    tasks,        \* the platforms of the coroutines appended to tasks, in order
    fetches,      \* per task: its position, the outcome of its call and its result
    calls,        \* outbound calls issued per platform by the current request
    platform_data,\* the dict get_all_platform_data returned
    report,       \* what get_data_integration_status answered for platform_data
    direct,       \* the last fetch made on a service directly
    kept,         \* a returned record its caller kept, as the caller has left it
    signature_key,\* SQUARE_WEBHOOK_SIGNATURE_KEY as SquareBookingService read it
    hash_salt,    \* HASH_SALT as os.getenv gives it
    verified,     \* the last verify_webhook_signature call and its result
    webhook,      \* the last process_booking_webhook call and its result
    attribution,  \* what the last _process_for_attribution call prepared
    earlier,      \* what the call before it prepared
    clock,        \* time.time(), in seconds since the process started
    cache,        \* the cache dict of main.py
    cache_ttl,    \* the cache_ttl dict: when each key was set
    rate_limit_store, \* per "client_ip:endpoint" key, the times of accepted requests
    requests,     \* the dashboard requests: where each stands and its response
    campaign,     \* the last campaign-performance request and its response
    rate_log,     \* the check_rate_limit calls made so far, with what each returned
    cache_log,    \* the set_cache, get_from_cache and clear_cache calls made so far
    models,       \* the answers of get_attribution_models so far, with their times
    oauth_states, \* the oauth_states dict of oauth.py
    generated,    \* the states generate_oauth_state has returned
    oauth_log,    \* the validate_oauth_state and oauth_callback calls made so far
    oauth_clock,  \* time.time() of oauth.py, in seconds since the process started
    business_settings_store, \* the business_settings_store dict of business.py
    settings_log  \* the save_business_settings and get_business_settings calls so far

vars == <<tracked, interaction, lookup, booking, now, events, scored, prior,
          tokens, pc, tasks, fetches, calls, platform_data, report, direct, kept,
          signature_key, hash_salt, verified, webhook, attribution, earlier,
          clock, cache, cache_ttl, rate_limit_store, requests, campaign, rate_log,
          cache_log, models, oauth_states, generated, oauth_log, oauth_clock,
          business_settings_store, settings_log>>

bookingVars == <<tracked, interaction, lookup, booking, now>>
scorerVars == <<events, scored, prior>>
fetchVars == <<tokens, pc, tasks, fetches, calls, platform_data, report, direct, kept>>
webhookVars == <<signature_key, hash_salt, verified, webhook, attribution, earlier>>
dashboardVars == <<clock, cache, cache_ttl, rate_limit_store, requests, campaign, rate_log,
                   cache_log, models>>
oauthVars == <<oauth_states, generated, oauth_log, oauth_clock>>
businessVars == <<business_settings_store, settings_log>>

(***************************************************************************)
(* Bounds and input samples                                                *)
(***************************************************************************)
MaxEvents == 3

\* days the clock runs and interactions on record in the runs that follow
\* the clock
MaxDays == 8
MaxRecorded == 1

\* seconds the clock of the dashboard runs and dashboard requests made
MaxClock == 45
MaxRequests == 2

\* check_rate_limit calls made directly
MaxCalls == 4

\* set_cache, get_from_cache and clear_cache calls made directly
MaxCacheCalls == 2

\* get_attribution_models requests made
MaxModelRequests == 4

\* seconds the clock of the OAuth flow runs, states generated, and
\* validate_oauth_state and oauth_callback calls made
MaxOAuthClock == 900
MaxStates == 2
MaxOAuthCalls == 2

\* save_business_settings and get_business_settings calls made
MaxSettingsCalls == 4

Users == {"u1", "u2"}

\* business_id as <<prefix, rest>>
BusinessIds == {<<"business-", "0001">>, <<"biz-", "0001">>}

\* (interaction_type, source) pairs sent to track_interaction
InteractionKinds == {<<"ad_click", "facebook_ads">>, <<"ad_view", "facebook_ads">>}

BookingValues == {-5, 0, 100}

\* joint samples of the three random draws of one loop iteration of
\* track_booking: index into sources, randint(1, 168), round(uniform(0.1, 0.4), 2)
DrawSample == {<<1, 1, 10>>, <<2, 168, 10>>, <<3, 168, 40>>}

\* samples of round(random.uniform(85.0, 97.5), 1)
ScoreSample == {850, 975}

(***************************************************************************)
(* Helpers                                                                 *)
(***************************************************************************)
RECURSIVE SumSeq(_)
SumSeq(s) == IF s = <<>> THEN 0 ELSE Head(s) + SumSeq(Tail(s))

\* round(num / den, digits) as an integer multiple of 1/scale.  Python rounds
\* the double nearest to the quotient; when the exact quotient lies half way
\* between two multiples the direction depends on the error of the floating
\* point division, so both neighbours are possible results.
RoundChoices(num, den, scale) ==
    LET q == (scale * num) \div den
        r == (scale * num) % den
    IN  IF 2 * r < den THEN {q}
        ELSE IF 2 * r > den THEN {q + 1}
        ELSE {q, q + 1}

(***************************************************************************)
(* backend/main.py: track_interaction                                      *)
(***************************************************************************)
NoResponse == [status |-> 0]

confidence_mapping(itype, source) ==
    IF <<itype, source>> \in {<<"ad_click", "facebook_ads">>, <<"ad_click", "google_ads">>}
    THEN "high"
    ELSE IF <<itype, source>> \in {<<"ad_view", "facebook_ads">>, <<"ad_view", "google_ads">>}
    THEN "medium"
    ELSE IF <<itype, source>> = <<"organic_visit", "organic">>
    THEN "low"
    ELSE "medium"

\* The HTTPException(400) of the business_id check is raised inside the try
\* block whose only handler is "except Exception", which turns it into a 500.
track_interaction(bid, user, kind) ==
    /\ IF bid[1] # "business-"
       THEN /\ interaction' = [status |-> 500, detail |-> "Failed to track interaction",
                               request |-> bid]
            /\ UNCHANGED tracked
       ELSE /\ interaction' =
                 [status |-> 200,
                  request |-> bid,
                  attribution_confidence |-> confidence_mapping(kind[1], kind[2]),
                  business_id |-> bid,
                  source |-> kind[2],
                  expire_days |-> IF confidence_mapping(kind[1], kind[2]) = "high" THEN 7 ELSE 3]
            /\ tracked' = tracked \cup {[user |-> user, source |-> kind[2], at |-> now]}
    /\ UNCHANGED <<lookup, booking, now>>
    /\ UNCHANGED <<scorerVars, fetchVars, webhookVars, dashboardVars, oauthVars, businessVars>>

\* C27: track_interaction answers a request whose business_id does not
\* start with 'business-' with 400 'Invalid business ID format'; a 500 is
\* answered only for unexpected internal errors, which a malformed
\* business_id is not.
C27_InvalidBusinessIs400 ==
    interaction.status # 0 =>
        /\ interaction.request[1] # "business-" =>
              /\ interaction.status = 400
              /\ interaction.detail = "Invalid business ID format"
        /\ interaction.status = 500 => interaction.request[1] = "business-"

(***************************************************************************)
(* backend/main.py: track_booking                                          *)
(***************************************************************************)
sources == <<"facebook_ads", "google_ads", "organic", "direct">>

MinTouchpoints == 1
MaxTouchpoints == 4

Touchpoint(draw, weight) ==
    [source |-> sources[draw[1]], hours_ago |-> draw[2], attribution_weight |-> weight]

\* "Normalize weights to sum to 1.0": every weight is divided by the total
\* and rounded to 3 decimals on its own.
RECURSIVE RoundedSeqs(_, _)
RoundedSeqs(raw, total_weight) ==
    IF raw = <<>> THEN {<<>>}
    ELSE {<<h>> \o t : h \in RoundChoices(Head(raw), total_weight, 1000),
                       t \in RoundedSeqs(Tail(raw), total_weight)}

NormalizedWeights(raw) == RoundedSeqs(raw, SumSeq(raw))

RecordedFor(user) == {t \in tracked : t.user = user}

\* only a negative booking_value is refused
track_booking_below_zero(user, value, draws, attribution_score) ==
    /\ lookup' = RecordedFor(user)
    /\ IF value < 0
       THEN booking' = [status |-> 400,
                        booking_id |-> user,
                        booking_value |-> value,
                        at |-> now,
                        matched_touchpoints |-> <<>>,
                        attribution_score |-> 0,
                        attribution_status |-> "rejected"]
       ELSE \E w \in NormalizedWeights([i \in 1 .. Len(draws) |-> draws[i][3]]) :
               booking' = [status |-> 200,
                           booking_id |-> user,
                           booking_value |-> value,
                           at |-> now,
                           matched_touchpoints |->
                               [i \in 1 .. Len(draws) |-> Touchpoint(draws[i], w[i])],
                           attribution_score |-> attribution_score,
                           attribution_status |->
                               IF attribution_score > 800 THEN "matched" ELSE "partial"]
    /\ UNCHANGED <<tracked, interaction, now>>
    /\ UNCHANGED <<scorerVars, fetchVars, webhookVars, dashboardVars, oauthVars, businessVars>>

\* "if request.booking_value <= 0: raise HTTPException(400)", which the
\* "except HTTPException: raise" clause lets through; a request that passes
\* draws its touchpoints and score at random
track_booking(user, value, draws, attribution_score) ==
    /\ lookup' = RecordedFor(user)
    /\ IF value <= 0
       THEN booking' = [status |-> 400,
                        booking_id |-> user,
                        booking_value |-> value,
                        at |-> now,
                        matched_touchpoints |-> <<>>,
                        attribution_score |-> 0,
                        attribution_status |-> "rejected"]
       ELSE \E w \in NormalizedWeights([i \in 1 .. Len(draws) |-> draws[i][3]]) :
               booking' = [status |-> 200,
                           booking_id |-> user,
                           booking_value |-> value,
                           at |-> now,
                           matched_touchpoints |->
                               [i \in 1 .. Len(draws) |-> Touchpoint(draws[i], w[i])],
                           attribution_score |-> attribution_score,
                           attribution_status |->
                               IF attribution_score > 800 THEN "matched" ELSE "partial"]
    /\ UNCHANGED <<tracked, interaction, now>>
    /\ UNCHANGED <<scorerVars, fetchVars, webhookVars, dashboardVars, oauthVars, businessVars>>

TrackInteraction ==
    \E bid \in BusinessIds, user \in Users, kind \in InteractionKinds :
        track_interaction(bid, user, kind)

\* a rejected request ends before the random draws, so none are enumerated
TrackBooking ==
    \E user \in Users, value \in BookingValues :
        \E score \in (IF value <= 0 THEN {0} ELSE ScoreSample),
           num_touchpoints \in (IF value <= 0 THEN {0} ELSE MinTouchpoints .. MaxTouchpoints) :
            \E draws \in [1 .. num_touchpoints -> DrawSample] :
                track_booking(user, value, draws, score)

\* a day passes
Tick ==
    /\ now < MaxDays
    /\ now' = now + 1
    /\ UNCHANGED <<tracked, interaction, lookup, booking>>
    /\ UNCHANGED <<scorerVars, fetchVars, webhookVars, dashboardVars, oauthVars, businessVars>>

\* an interaction is tracked while few are on record
RecordInteraction ==
    /\ Cardinality(tracked) < MaxRecorded
    /\ TrackInteraction

\* a booking of positive value that is matched to one touchpoint
QueryByBooking ==
    \E user \in Users, draw \in DrawSample, score \in ScoreSample :
        track_booking(user, 100, <<draw>>, score)

(***************************************************************************)
(* Claims about track_booking                                              *)
(***************************************************************************)
Matched == booking.status = 200

Weights == [i \in 1 .. Len(booking.matched_touchpoints) |->
                booking.matched_touchpoints[i].attribution_weight]

\* C1: in every match the attribution weights sum to 1.0 (1000 thousandths;
\* a tolerance of 1e-6 admits no other multiple of 0.001), or the match has
\* no touchpoints and confidence 0.
C1_WeightsSumToOne ==
    Matched =>
        \/ SumSeq(Weights) = 1000
        \/ booking.matched_touchpoints = <<>> /\ booking.attribution_score = 0

\* C2: a conversion whose identifier has no recorded interaction gets an
\* empty touchpoint list and confidence 0, and every touchpoint of a match
\* is one recorded earlier through track_interaction.
C2_NoFabricatedTouchpoints ==
    Matched =>
        /\ lookup = {} =>
              booking.matched_touchpoints = <<>> /\ booking.attribution_score = 0
        /\ \A i \in 1 .. Len(booking.matched_touchpoints) :
              \E t \in lookup : t.source = booking.matched_touchpoints[i].source

\* C3: a second track_booking run on the same conversion with the same
\* recorded interactions returns the touchpoints, weights and score of the
\* first run.
C3_DeterministicMatch ==
    [][(/\ Matched
        /\ booking'.status = 200
        /\ booking'.booking_id = booking.booking_id
        /\ booking'.booking_value = booking.booking_value
        /\ lookup' = lookup)
       => /\ booking'.matched_touchpoints = booking.matched_touchpoints
          /\ booking'.attribution_score = booking.attribution_score]_vars

\* C4: within a match a touchpoint nearer in time to the conversion never
\* weighs less than a farther one, and equal timestamps get equal weights.
C4_RecencyOrdered ==
    Matched =>
        \A i, j \in 1 .. Len(booking.matched_touchpoints) :
            LET a == booking.matched_touchpoints[i]
                b == booking.matched_touchpoints[j]
            IN  /\ a.hours_ago < b.hours_ago => a.attribution_weight >= b.attribution_weight
                /\ a.hours_ago = b.hours_ago => a.attribution_weight = b.attribution_weight

\* "Will expire in 7 days": the attribution window, in days
AttributionWindow == 7

\* C18: an interaction tracked at time t0 is among the touchpoints returned
\* for its identifier at every time from t0 to t0 + 7 days and at no later
\* time (there is no purge in the code, so none can run in between).
C18_ReturnedWithinWindow ==
    Matched =>
        \A t \in lookup :
            LET age == booking.at - t.at
                returned == \E i \in 1 .. Len(booking.matched_touchpoints) :
                                /\ booking.matched_touchpoints[i].source = t.source
                                /\ booking.matched_touchpoints[i].hours_ago = 24 * age
            IN  returned <=> age <= AttributionWindow

\* C15: a booking_value less than or equal to 0 is refused with status 400
\* and no touchpoints and no attribution score are returned; a
\* booking_value greater than 0 is never refused.
C15_ValueValidated ==
    booking.status # 0 =>
        /\ booking.booking_value <= 0 =>
              /\ booking.status = 400
              /\ booking.matched_touchpoints = <<>>
              /\ booking.attribution_score = 0
        /\ booking.booking_value > 0 => booking.status = 200

\* a booking of value 0 was refused
C15_Witness ==
    /\ booking.status = 400
    /\ booking.booking_value = 0
    /\ booking.matched_touchpoints = <<>>

(***************************************************************************)
(* backend/app/services/real_data_service.py:                              *)
(* RealDataService.calculate_attribution_confidence                        *)
(***************************************************************************)
EventSources == {"square_payments", "stripe_payments", "facebook_ads", "google_ads"}
EventTypes == {"conversion", "ad_click", "ad_view"}

Events == [source : EventSources, event_type : EventTypes, cross_platform_match : BOOLEAN]

NotScored == [confidence |-> 0, base_num |-> 0, bonus_num |-> 0, total_events |-> 0,
              reason |-> "none"]

Min(a, b) == IF a <= b THEN a ELSE b

\* weight of one event in high_confidence_events, in tenths (1 is 10, 0.8 is 8)
EventQuality(event) ==
    IF event.source \in {"square_payments", "stripe_payments"} /\ event.event_type = "conversion"
    THEN 10
    ELSE IF event.source \in {"facebook_ads", "google_ads"} /\ event.event_type = "ad_click"
    THEN 8
    ELSE 0

RECURSIVE high_confidence_events(_)
high_confidence_events(evs) ==
    IF evs = <<>> THEN 0 ELSE EventQuality(Head(evs)) + high_confidence_events(Tail(evs))

RECURSIVE cross_platform_matches(_)
cross_platform_matches(evs) ==
    IF evs = <<>> THEN 0
    ELSE (IF Head(evs).cross_platform_match THEN 1 ELSE 0) + cross_platform_matches(Tail(evs))

\* round(num / den) to the nearest integer, halves to the even neighbour, as
\* round(x, 1) does on a double that is an exact half; for fewer than 8
\* events no quotient below is a half, and the result equals Python's on
\* every list of up to 7 events.
RoundHalfEven(num, den) ==
    LET q == num \div den
        r == num % den
    IN  IF 2 * r > den \/ (2 * r = den /\ q % 2 = 1) THEN q + 1 ELSE q

\* the return value of the except branch (a ZeroDivisionError when the list is empty)
FallbackCalculation ==
    [confidence |-> 850, base_num |-> 0, bonus_num |-> 0, total_events |-> 0,
     reason |-> "fallback_calculation"]

\* base_confidence and cross_platform_bonus are kept as numerators over
\* total_events, in tenths of a point: base_num / total_events is ten times
\* base_confidence.
\* the scorer without the min(..., 98.5) of final_confidence
ConfidenceOfUncapped(evs, cap) ==
    LET total_events == Len(evs)
        base_num == 100 * high_confidence_events(evs)
        bonus_num == Min(100 * cross_platform_matches(evs), 150 * total_events)
    IN  [confidence |-> RoundHalfEven(base_num + bonus_num, total_events),
         base_num |-> base_num,
         bonus_num |-> bonus_num,
         total_events |-> total_events,
         reason |-> "ml_enhanced_with_cross_platform_validation"]

ConfidenceOf(evs, cap) ==
    LET total_events == Len(evs)
        base_num == 100 * high_confidence_events(evs)
        bonus_num == Min(100 * cross_platform_matches(evs), 150 * total_events)
        final_num == Min(base_num + bonus_num, cap * total_events)
    IN  [confidence |-> RoundHalfEven(final_num, total_events),
         base_num |-> base_num,
         bonus_num |-> bonus_num,
         total_events |-> total_events,
         reason |-> "ml_enhanced_with_cross_platform_validation"]

MaxConfidence == 985

\* the scorer without its "if not events" guard: the division by
\* total_events = 0 raises and the except branch answers
calculate_attribution_confidence_unguarded(evs) ==
    IF evs = <<>> THEN FallbackCalculation ELSE ConfidenceOf(evs, MaxConfidence)

calculate_attribution_confidence(evs) ==
    IF evs = <<>>
    THEN [confidence |-> 0, base_num |-> 0, bonus_num |-> 0, total_events |-> 0,
          reason |-> "No events provided"]
    ELSE ConfidenceOf(evs, MaxConfidence)

\* one call of the scorer on the empty list
ScoreNoEvents ==
    /\ events' = <<>>
    /\ scored' = calculate_attribution_confidence(<<>>)
    /\ prior' = NotScored
    /\ UNCHANGED <<bookingVars, fetchVars, webhookVars, dashboardVars, oauthVars, businessVars>>

\* one call of the scorer on the last list plus one more event; prior keeps
\* what the scorer returned for the list without it
ScoreWithEvent ==
    \E event \in Events :
        /\ Len(events) < MaxEvents
        /\ events' = Append(events, event)
        /\ scored' = calculate_attribution_confidence(events')
        /\ prior' = calculate_attribution_confidence(events)
        /\ UNCHANGED <<bookingVars, fetchVars, webhookVars, dashboardVars, oauthVars, businessVars>>

(***************************************************************************)
(* Claims about calculate_attribution_confidence                           *)
(***************************************************************************)
Corroborated ==
    /\ Len(events) >= 2
    /\ events[Len(events)].cross_platform_match
    /\ \A i \in 1 .. Len(events) - 1 : events[i].source # events[Len(events)].source

\* C5: adding to a non-empty event list one event of a platform source that
\* is not in the list and is flagged as a cross-platform match never lowers
\* the confidence.
C5_MonotonicUnderCorroboration ==
    Corroborated => scored.confidence >= prior.confidence

\* C6: the returned confidence lies between 0 and 98.5, and the
\* cross-platform bonus is at most 15 points.
C6_ConfidenceBounded ==
    scored.reason # "none" =>
        /\ 0 <= scored.confidence
        /\ scored.confidence <= 985
        /\ scored.bonus_num <= 150 * scored.total_events

\* a scored list whose base score plus bonus exceeds 98.5
C6_Witness ==
    /\ scored.reason = "ml_enhanced_with_cross_platform_validation"
    /\ scored.base_num + scored.bonus_num > 985 * scored.total_events
    /\ scored.bonus_num > 0

\* C7: for the empty event list the scorer returns confidence 0 for the
\* reason that no events were provided, not the 85.0 fallback.
C7_EmptyListScoresZero ==
    (events = <<>> /\ scored.reason # "none") =>
        /\ scored.confidence = 0
        /\ scored.reason = "No events provided"

\* the scorer has been called on the empty list
C7_Witness ==
    /\ events = <<>>
    /\ scored.reason = "No events provided"

(***************************************************************************)
(* backend/app/services/real_data_service.py: the four fetch operations    *)
(* and their fallback records                                              *)
(***************************************************************************)
\* the keys of the dict get_all_platform_data returns, in the order in which
\* it appends the fetch coroutines to tasks
platform_keys == <<"facebook", "google", "square", "stripe">>

Platforms == {platform_keys[k] : k \in 1 .. Len(platform_keys)}

SourceOf(platform) ==
    CASE platform = "facebook" -> "facebook_ads"
      [] platform = "google" -> "google_ads"
      [] platform = "square" -> "square_payments"
      [] platform = "stripe" -> "stripe_payments"

\* the hard-coded attribution_confidence of each platform's summary, in tenths
BaselineConfidence(platform) ==
    CASE platform = "facebook" -> 925
      [] platform = "google" -> 893
      [] platform = "square" -> 968
      [] platform = "stripe" -> 952

\* what the outbound call of a fetch can come to ("unparsable_body": the
\* status is 200 but response.json() or the conversion of a field raises)
Outcomes == {"ok", "non_200", "transport_error", "timeout", "unparsable_body"}

NoKept == [platform |-> "", record |-> [status |-> "none"]]

\* one record per platform is built once and handed out again: a caller
\* that kept it and changed it has changed what the next fetch returns
fallback_data_shared(platform) ==
    IF kept.platform = platform /\ kept.record.status = "fallback"
    THEN kept.record
    ELSE [status |-> "fallback",
          source |-> SourceOf(platform),
          data |-> <<"canned", platform>>,
          attribution_confidence |-> BaselineConfidence(platform)]

\* _get_fallback_facebook_data and its three siblings: every call evaluates
\* the dict literal anew, so the record holds the canned campaigns,
\* transactions or charges of the platform whatever became of earlier ones
fallback_data(platform) ==
    [status |-> "fallback",
     source |-> SourceOf(platform),
     data |-> <<"canned", platform>>,
     attribution_confidence |-> BaselineConfidence(platform)]

\* the record a fetch builds from a 200 response
live_data(platform) ==
    [status |-> "success",
     source |-> SourceOf(platform),
     data |-> <<"live", platform>>,
     attribution_confidence |-> BaselineConfidence(platform)]

Returned(record) == [kind |-> "return", record |-> record]
Raised == [kind |-> "raise", record |-> [status |-> "none"]]

\* a fetch does its outbound call only past the "if not self.session" check
IssuesCall(has_session) == has_session

\* a fetch without its try/except: the exception of the call or of
\* response.json() reaches the caller
fetch_unguarded(platform, has_session, outcome) ==
    IF ~has_session \/ outcome \in {"transport_error", "timeout", "unparsable_body"}
    THEN Raised
    ELSE IF outcome = "non_200" THEN Returned(fallback_data(platform))
    ELSE Returned(live_data(platform))

\* fetch_facebook_conversions, fetch_google_ads_data, fetch_square_transactions
\* and fetch_stripe_events: what the coroutine gives its caller
fetch(platform, has_session, outcome) ==
    IF ~has_session
    THEN Returned(fallback_data(platform))      \* raise Exception(...), caught below
    ELSE IF outcome \in {"transport_error", "timeout"}
    THEN Returned(fallback_data(platform))      \* session.get raises, except Exception
    ELSE IF outcome = "non_200"
    THEN Returned(fallback_data(platform))      \* the else branch of response.status == 200
    ELSE IF outcome = "unparsable_body"
    THEN Returned(fallback_data(platform))      \* response.json() raises, except Exception
    ELSE Returned(live_data(platform))

NoDirect == [platform |-> "", has_session |-> FALSE, outcome |-> "", called |-> FALSE,
             result |-> Raised, kept_before |-> NoKept, done |-> FALSE]

\* one fetch on a RealDataService, entered as a context manager or not;
\* without a session the fetch ends before any call is made
DirectFetch ==
    \E platform \in Platforms, has_session \in BOOLEAN, outcome \in Outcomes \cup {"no_call"} :
        /\ IssuesCall(has_session) <=> outcome \in Outcomes
        /\ direct' = [platform |-> platform,
                      has_session |-> has_session,
                      outcome |-> outcome,
                      called |-> IssuesCall(has_session),
                      result |-> fetch(platform, has_session, outcome),
                      kept_before |-> kept,
                      done |-> TRUE]
        /\ UNCHANGED <<tokens, pc, tasks, fetches, calls, platform_data, report, kept>>
        /\ UNCHANGED <<bookingVars, scorerVars, webhookVars, dashboardVars, oauthVars, businessVars>>

\* the caller of the last fetch keeps the dict it was given
KeepReturned ==
    /\ direct.done
    /\ direct.result.kind = "return"
    /\ kept' = [platform |-> direct.platform, record |-> direct.result.record]
    /\ UNCHANGED <<tokens, pc, tasks, fetches, calls, platform_data, report, direct>>
    /\ UNCHANGED <<bookingVars, scorerVars, webhookVars, dashboardVars, oauthVars, businessVars>>

\* what a caller can write into a field of a dict it holds
Overwrites(field) ==
    IF field = "data" THEN {<<>>, <<"overwritten">>} ELSE {0}

\* the caller assigns to a field of the dict it kept (its campaigns,
\* transactions or charges, or a summary value)
ChangeReturned ==
    \E field \in {"data", "attribution_confidence"} :
        \E value \in Overwrites(field) :
            /\ kept.record.status # "none"
            /\ kept' = [kept EXCEPT !.record[field] = value]
            /\ UNCHANGED <<tokens, pc, tasks, fetches, calls, platform_data, report, direct>>
            /\ UNCHANGED <<bookingVars, scorerVars, webhookVars, dashboardVars, oauthVars, businessVars>>

(***************************************************************************)
(* backend/app/api/v1/endpoints/data_integration.py:                       *)
(* get_data_integration_status, the caller whose request of                *)
(* get_all_platform_data is followed below. Percentages and the quality    *)
(* score are kept in tenths (63.8 is 638).                                 *)
(***************************************************************************)
NoReport == [status |-> 0]

\* a token is reported for every platform
has_oauth_token_always(platform, toks) == TRUE

\* bool(os.getenv(f'{platform.upper()}_ACCESS_TOKEN'))
has_oauth_token(platform, toks) == platform \in toks

\* the entry built for one item of platform_data
PlatformInfo(platform, data, toks) ==
    LET is_real_data == data.status = "success"
    IN  [name |-> platform,
         status |-> data.status,
         data_source |-> IF is_real_data THEN "real_api" ELSE "fallback_demo",
         confidence |-> data.attribution_confidence,
         has_oauth_token |-> has_oauth_token(platform, toks),
         api_connectivity |-> IF is_real_data THEN "connected" ELSE "using_fallback"]

\* the loop over platform_data.items(): real_data_count after the items of keys
RECURSIVE real_data_count(_, _)
real_data_count(data, keys) ==
    IF keys = <<>> THEN 0
    ELSE (IF data[Head(keys)].status = "success" THEN 1 ELSE 0)
         + real_data_count(data, Tail(keys))

\* the loop over platforms.values()
RECURSIVE quality_factors(_, _)
quality_factors(platforms, keys) ==
    IF keys = <<>> THEN <<>>
    ELSE LET platform_info == platforms[Head(keys)]
         IN  <<IF platform_info.data_source = "real_api" THEN 100
               ELSE IF platform_info.has_oauth_token THEN 75
               ELSE 40>> \o quality_factors(platforms, Tail(keys))

\* "fully_integrated" only above 75 percent
integration_status_strict(real_data_percentage, platforms) ==
    IF real_data_percentage > 750 THEN "fully_integrated"
    ELSE IF real_data_percentage >= 250 THEN "partially_integrated"
    ELSE IF \E p \in DOMAIN platforms : platforms[p].has_oauth_token THEN "tokens_configured"
    ELSE "demo_mode"

\* "Determine integration status": the if/elif chain on real_data_percentage
integration_status(real_data_percentage, platforms) ==
    IF real_data_percentage >= 750 THEN "fully_integrated"
    ELSE IF real_data_percentage >= 250 THEN "partially_integrated"
    ELSE IF \E p \in DOMAIN platforms : platforms[p].has_oauth_token THEN "tokens_configured"
    ELSE "demo_mode"

\* the DataIntegrationStatus answered for the dict get_all_platform_data
\* returned; that function raises nothing, so the 500 branch is not taken
get_data_integration_status(data, toks) ==
    LET platforms == [p \in DOMAIN data |-> PlatformInfo(p, data[p], toks)]
        total_platforms == Len(platform_keys)
        real_data_percentage ==
            IF total_platforms > 0
            THEN RoundHalfEven(real_data_count(data, platform_keys) * 1000, total_platforms)
            ELSE 0
        factors == quality_factors(platforms, platform_keys)
        data_quality_score ==
            IF factors # <<>> THEN RoundHalfEven(SumSeq(factors) * 10, Len(factors)) ELSE 400
    IN  [status |-> 200,
         integration_status |-> integration_status(real_data_percentage, platforms),
         platforms |-> platforms,
         data_quality_score |-> data_quality_score,
         real_data_percentage |-> real_data_percentage]

(***************************************************************************)
(* backend/app/services/real_data_service.py: get_all_platform_data        *)
(***************************************************************************)
RECURSIVE SelectSeq2(_, _)
SelectSeq2(seq, keep) ==
    IF seq = <<>> THEN <<>>
    ELSE IF Head(seq) \in keep THEN <<Head(seq)>> \o SelectSeq2(Tail(seq), keep)
    ELSE SelectSeq2(Tail(seq), keep)

\* tasks built without looking at the tokens
TasksForAll(toks) == platform_keys

\* the "if facebook_token: tasks.append(...)" sequence
TasksFor(toks) == SelectSeq2(platform_keys, toks)

AllFallback == [p \in Platforms |-> fallback_data(p)]

NoCalls == [p \in Platforms |-> 0]

\* every key reads the first result
ResultAtFirst(results, k) ==
    IF Len(results) > 0 /\ results[1].kind = "return"
    THEN results[1].record
    ELSE fallback_data(platform_keys[k])

\* "results[k-1] if len(results) > k-1 and not isinstance(results[k-1],
\* Exception) else service._get_fallback_..._data()"
ResultAt(results, k) ==
    IF Len(results) > k - 1 /\ results[k].kind = "return"
    THEN results[k].record
    ELSE fallback_data(platform_keys[k])

\* load_dotenv() at start-up: the tokens the process will see
LoadEnvironment ==
    /\ pc = "idle"
    /\ tokens' \in SUBSET Platforms
    /\ UNCHANGED <<pc, tasks, fetches, calls, platform_data, report, direct, kept>>
    /\ UNCHANGED <<bookingVars, scorerVars, webhookVars, dashboardVars, oauthVars, businessVars>>

\* get_data_integration_status awaits get_all_platform_data, which reads
\* the tokens and creates the coroutines; with no token at all it returns
\* the four fallback records at once and the status is answered
GetAllPlatformData ==
    /\ pc \in {"idle", "returned"}
    /\ tasks' = TasksFor(tokens)
    /\ calls' = NoCalls
    /\ fetches' = [i \in 1 .. Len(tasks') |-> [at |-> "created", outcome |-> "", result |-> Raised]]
    /\ IF tasks' = <<>>
       THEN /\ platform_data' = AllFallback
            /\ report' = get_data_integration_status(platform_data', tokens)
            /\ pc' = "returned"
       ELSE /\ platform_data' = [p \in {} |-> p]
            /\ report' = NoReport
            /\ pc' = "gathering"
    /\ UNCHANGED <<tokens, direct, kept>>
    /\ UNCHANGED <<bookingVars, scorerVars, webhookVars, dashboardVars, oauthVars, businessVars>>

\* a task of asyncio.gather runs up to its outbound call (the session of
\* the "async with RealDataService()" block is initialised)
IssueCall ==
    \E i \in 1 .. Len(tasks) :
        /\ pc = "gathering"
        /\ fetches[i].at = "created"
        /\ fetches' = [fetches EXCEPT ![i].at = "awaiting"]
        /\ calls' = [calls EXCEPT ![tasks[i]] = @ + (IF IssuesCall(TRUE) THEN 1 ELSE 0)]
        /\ UNCHANGED <<tokens, pc, tasks, platform_data, report, direct, kept>>
        /\ UNCHANGED <<bookingVars, scorerVars, webhookVars, dashboardVars, oauthVars, businessVars>>

\* the call of a task comes back, fails or times out, in any order
CompleteCall ==
    \E i \in 1 .. Len(tasks), outcome \in Outcomes :
        /\ pc = "gathering"
        /\ fetches[i].at = "awaiting"
        /\ fetches' = [fetches EXCEPT ![i] = [at |-> "done", outcome |-> outcome,
                                              result |-> fetch(tasks[i], TRUE, outcome)]]
        /\ UNCHANGED <<tokens, pc, tasks, calls, platform_data, report, direct, kept>>
        /\ UNCHANGED <<bookingVars, scorerVars, webhookVars, dashboardVars, oauthVars, businessVars>>

\* asyncio.gather returns the results in the order of tasks, the dict is
\* built from their positions and get_data_integration_status answers
Gather ==
    /\ pc = "gathering"
    /\ \A i \in 1 .. Len(tasks) : fetches[i].at = "done"
    /\ LET results == [i \in 1 .. Len(tasks) |-> fetches[i].result]
       IN  platform_data' = [p \in Platforms |->
               ResultAt(results, CHOOSE k \in 1 .. Len(platform_keys) : platform_keys[k] = p)]
    /\ report' = get_data_integration_status(platform_data', tokens)
    /\ pc' = "returned"
    /\ UNCHANGED <<tokens, tasks, fetches, calls, direct, kept>>
    /\ UNCHANGED <<bookingVars, scorerVars, webhookVars, dashboardVars, oauthVars, businessVars>>

(***************************************************************************)
(* Claims about the fetch operations and get_all_platform_data             *)
(***************************************************************************)
\* what a finished fetch must have given its caller
FetchContract(has_session, outcome, result) ==
    /\ result.kind = "return"
    /\ result.record.status \in {"success", "fallback"}
    /\ result.record.status = "success" <=> (has_session /\ outcome = "ok")

\* C8: a fetch returns a record and raises nothing whatever its call comes
\* to; the record has status 'success' exactly for a 200 response with a
\* parsable body on an initialised session, and status 'fallback' otherwise.
C8_FetchNeverRaises ==
    /\ direct.done => FetchContract(direct.has_session, direct.outcome, direct.result)
    /\ \A i \in 1 .. Len(fetches) :
          fetches[i].at = "done" => FetchContract(TRUE, fetches[i].outcome, fetches[i].result)

\* a fetch on a service whose session was never initialised came back with
\* the fallback record, without a call
C8_Witness ==
    /\ direct.done
    /\ ~direct.has_session
    /\ ~direct.called
    /\ direct.result = Returned(fallback_data(direct.platform))

OutcomeOf(platform) ==
    fetches[CHOOSE i \in 1 .. Len(tasks) : tasks[i] = platform].outcome

\* C9: with all four tokens set, the returned dict has the four keys, the
\* fallback record for every platform whose call failed or timed out and
\* the platform's own live record for every other one.
C9_PartialFailure ==
    (pc = "returned" /\ tokens = Platforms) =>
        /\ DOMAIN platform_data = Platforms
        /\ \A p \in Platforms :
              IF OutcomeOf(p) = "ok"
              THEN platform_data[p] = live_data(p)
              ELSE platform_data[p].status = "fallback"

\* three platforms live and the second one timed out
C9_Witness ==
    /\ pc = "returned"
    /\ tokens = Platforms
    /\ OutcomeOf("google") = "timeout"
    /\ \A p \in Platforms \ {"google"} : OutcomeOf(p) = "ok" /\ platform_data[p] = live_data(p)
    /\ platform_data["google"].status = "fallback"

\* C10: a request issues one outbound call for each platform whose token is
\* set and none for a platform whose token is absent.
C10_OneCallPerToken ==
    \A p \in Platforms :
        /\ calls[p] <= 1
        /\ p \notin tokens => calls[p] = 0
        /\ pc = "returned" => calls[p] = (IF p \in tokens THEN 1 ELSE 0)

\* a request with two of the four tokens has returned
C10_Witness ==
    /\ pc = "returned"
    /\ tokens = {"google", "stripe"}
    /\ calls["google"] = 1 /\ calls["stripe"] = 1
    /\ calls["facebook"] = 0 /\ calls["square"] = 0

\* C11: whatever tokens are set and however the calls end, the record
\* returned under each key has that platform's own source: a platform
\* without a token gets its own fallback record and no platform's result
\* is returned under another platform's key.
C11_OwnSourcePerKey ==
    pc = "returned" =>
        \A p \in Platforms :
            /\ platform_data[p].source = SourceOf(p)
            /\ p \notin tokens => platform_data[p] = fallback_data(p)

\* the canned values of a platform
CannedValues(platform) ==
    [status |-> "fallback",
     source |-> SourceOf(platform),
     data |-> <<"canned", platform>>,
     attribution_confidence |-> BaselineConfidence(platform)]

\* C14: after any sequence of fetches and any change a caller made to a
\* record returned earlier, a record a fetch returns with status 'fallback'
\* carries exactly the canned values of its platform.
C14_FallbackIsCanned ==
    (direct.done /\ direct.result.kind = "return") =>
        (direct.result.record.status = "fallback"
            => direct.result.record = CannedValues(direct.platform))

\* the caller had kept and changed an earlier fallback record of the
\* platform when the fetch returned the fallback record again
C14_Witness ==
    /\ direct.done
    /\ direct.kept_before.platform = direct.platform
    /\ direct.kept_before.record.status = "fallback"
    /\ direct.kept_before.record # CannedValues(direct.platform)
    /\ direct.result = Returned(CannedValues(direct.platform))

(***************************************************************************)
(* Claims about get_data_integration_status                                *)
(***************************************************************************)
\* C12: with all four tokens absent the answer has integration_status
\* 'demo_mode' and each of the four platform entries has status 'fallback'.
C12_NoTokensDemoMode ==
    (pc = "returned" /\ tokens = {}) =>
        /\ report.integration_status = "demo_mode"
        /\ DOMAIN report.platforms = Platforms
        /\ \A p \in Platforms : report.platforms[p].status = "fallback"

\* a request made with no token in the environment was answered
C12_Witness ==
    /\ pc = "returned"
    /\ tokens = {}
    /\ report.status = 200
    /\ report.integration_status = "demo_mode"
    /\ report.real_data_percentage = 0

LiveCount == Cardinality({p \in Platforms : platform_data[p].status = "success"})

\* C13: for every combination of record status and token presence the
\* answer is 'fully_integrated' when at least 75% of the platforms are
\* live, else 'partially_integrated' when at least 25% are, else
\* 'tokens_configured' when at least one token is set, else 'demo_mode'.
C13_StatusThresholds ==
    pc = "returned" =>
        report.integration_status =
            IF 100 * LiveCount >= 75 * Cardinality(Platforms) THEN "fully_integrated"
            ELSE IF 100 * LiveCount >= 25 * Cardinality(Platforms) THEN "partially_integrated"
            ELSE IF tokens # {} THEN "tokens_configured"
            ELSE "demo_mode"

\* exactly three of the four records are live: 75 percent
C13_Witness ==
    /\ pc = "returned"
    /\ LiveCount = 3
    /\ report.real_data_percentage = 750
    /\ report.integration_status = "fully_integrated"

(***************************************************************************)
(* backend/app/services/square_booking_service.py: SquareBookingService    *)
(* Strings are sequences of characters; a value that is None or missing is *)
(* the empty sequence.                                                     *)
(***************************************************************************)
NotSet == <<>>

\* the secret Square signs its webhooks with
SquareSecret == <<"k", "1">>

\* the "default-salt" of os.getenv("HASH_SALT", "default-salt")
DefaultSalt == <<"default-salt">>

Salts == {DefaultSalt, <<"pepper">>}

\* hashlib.sha256(...).hexdigest(): taken to be free of collisions
Sha256(text) == <<"sha256", text>>

\* hmac.new(key, payload, hashlib.sha256).hexdigest()
Hmac(key, payload) == <<"hmac-sha256", key, payload>>

\* raw webhook payloads: event type, booking id and customer id of the body
\* (no appointment_segments)
Payloads == [type : {"booking.created", "booking.updated", "payment.created"},
             id : {<<>>, <<"b", "1">>},
             customer_id : {<<>>, <<"c", "1">>}]

\* what the signature header of a delivery can hold: Square's signature of
\* the payload, a signature made with another key, the signature of another
\* payload, or nothing
Signatures(payload) ==
    {Hmac(SquareSecret, payload), Hmac(<<"k", "2">>, payload),
     Hmac(SquareSecret, [payload EXCEPT !.id = <<"b", "2">>]), <<>>}

NotVerified == [payload |-> <<>>, signature |-> <<>>, result |-> FALSE, done |-> FALSE]

\* verify_webhook_signature: True without a configured key; with one,
\* compare_digest of the header and the expected digest (a header that is
\* not a string raises and gives False)
verify_webhook_signature(key, payload, signature) ==
    IF key = NotSet THEN TRUE
    ELSE IF signature = <<>> THEN FALSE
    ELSE signature = Hmac(key, payload)

\* os.getenv at construction of the global square_booking_service, and the
\* salt every _process_for_attribution call reads
LoadSquareEnvironment ==
    /\ ~verified.done /\ ~webhook.done /\ ~attribution.done
    /\ signature_key' \in {NotSet, SquareSecret}
    /\ hash_salt' \in Salts
    /\ UNCHANGED <<verified, webhook, attribution, earlier>>
    /\ UNCHANGED <<bookingVars, scorerVars, fetchVars, dashboardVars, oauthVars, businessVars>>

VerifyWebhookSignature ==
    \E payload \in Payloads :
        \E signature \in Signatures(payload) :
            /\ verified' = [payload |-> payload,
                            signature |-> signature,
                            result |-> verify_webhook_signature(signature_key, payload, signature),
                            done |-> TRUE]
            /\ UNCHANGED <<signature_key, hash_salt, webhook, attribution, earlier>>
            /\ UNCHANGED <<bookingVars, scorerVars, fetchVars, dashboardVars, oauthVars, businessVars>>

\* str.lower() on the characters in use
RECURSIVE lower(_)
lower(text) ==
    IF text = <<>> THEN <<>>
    ELSE <<CASE Head(text) = "A" -> "a"
             [] Head(text) = "B" -> "b"
             [] OTHER -> Head(text)>> \o lower(Tail(text))

\* ''.join(filter(str.isdigit, phone))
RECURSIVE clean_phone(_)
clean_phone(phone) ==
    IF phone = <<>> THEN <<>>
    ELSE (IF Head(phone) \in {"0", "1", "2", "3", "4", "5", "6", "7", "8", "9"}
          THEN <<Head(phone)>> ELSE <<>>) \o clean_phone(Tail(phone))

\* _calculate_booking_value over the duration_minutes of the segments
RECURSIVE total_value(_)
total_value(durations) ==
    IF durations = <<>> THEN 0
    ELSE (IF Head(durations) <= 30 THEN 25
          ELSE IF Head(durations) <= 60 THEN 45
          ELSE 75) + total_value(Tail(durations))

calculate_booking_value(durations) ==
    IF total_value(durations) >= 35 THEN total_value(durations) ELSE 35

NoIdentifiers == [email_hash |-> <<>>, phone_hash |-> <<>>]

NotPrepared == [email |-> <<>>, phone |-> <<>>, salt |-> <<>>, prepared |-> FALSE,
                identifiers |-> NoIdentifiers, booking_value |-> 0, done |-> FALSE]

\* _process_for_attribution for a booking_info whose customer has this
\* email_address and phone_number: nothing is prepared without both, else
\* the hashes are taken of email.lower() + salt and of the digits + salt
process_for_attribution(email, phone, durations, salt) ==
    IF email = <<>> /\ phone = <<>>
    THEN [NotPrepared EXCEPT !.salt = salt, !.done = TRUE]
    ELSE [email |-> email,
          phone |-> phone,
          salt |-> salt,
          prepared |-> TRUE,
          identifiers |->
              [email_hash |-> IF email # <<>> THEN Sha256(lower(email) \o salt) ELSE <<>>,
               phone_hash |-> IF phone # <<>> THEN Sha256(clean_phone(phone) \o salt) ELSE <<>>],
          booking_value |-> calculate_booking_value(durations),
          done |-> TRUE]

\* email_address values of a customer
Emails == {<<>>, <<"a", "@", "b">>, <<"A", "@", "B">>, <<"a", "@", "b", " ">>,
           <<" ", "a", "@", "b">>, <<"c", "@", "b">>}

\* phone_number values of a customer
Phones == {<<>>, <<"5", "5", "5">>, <<"5", "-", "5", " ", "5">>}

\* duration_minutes of the appointment segments of a booking
Durations == {<<>>, <<30>>, <<60, 90>>}

ProcessForAttribution ==
    \E email \in Emails, phone \in Phones, durations \in Durations :
        /\ attribution' = process_for_attribution(email, phone, durations, hash_salt)
        /\ earlier' = attribution
        /\ UNCHANGED <<signature_key, hash_salt, verified, webhook>>
        /\ UNCHANGED <<bookingVars, scorerVars, fetchVars, dashboardVars, oauthVars, businessVars>>

NoWebhook == [payload |-> <<>>, signature |-> <<>>, returned |-> FALSE,
              processed_for_attribution |-> FALSE, done |-> FALSE]

\* process_booking_webhook(webhook_data): other event types are ignored, a
\* missing id gives False; with a customer_id get_customer_details reads
\* self.client, which __init__ never sets, and the AttributeError is caught
\* by "except Exception" (False); without one _process_for_attribution runs
\* on a booking_info that has no customer.  The signature of the delivery
\* is not a parameter and is never looked at.
ProcessBookingWebhook ==
    \E payload \in Payloads :
        \E signature \in Signatures(payload) :
            LET ignored == payload.type \notin {"booking.created", "booking.updated"}
                reaches == ~ignored /\ payload.id # <<>> /\ payload.customer_id = <<>>
            IN  /\ webhook' = [payload |-> payload,
                               signature |-> signature,
                               returned |-> ignored \/ reaches,
                               processed_for_attribution |-> reaches,
                               done |-> TRUE]
                /\ IF reaches
                   THEN /\ attribution' = process_for_attribution(<<>>, <<>>, <<>>, hash_salt)
                        /\ earlier' = attribution
                   ELSE UNCHANGED <<attribution, earlier>>
                /\ UNCHANGED <<signature_key, hash_salt, verified>>
                /\ UNCHANGED <<bookingVars, scorerVars, fetchVars, dashboardVars, oauthVars, businessVars>>

(***************************************************************************)
(* Claims about SquareBookingService                                       *)
(***************************************************************************)
\* C16: no webhook whose signature differs from the HMAC-SHA256 of its
\* payload under the shared secret is processed for attribution:
\* verify_webhook_signature returns False for it in every configuration
\* and process_booking_webhook runs the attribution preparation only for
\* webhooks whose signature is the right one.
C16_OnlySignedWebhooks ==
    /\ (verified.done /\ verified.signature # Hmac(SquareSecret, verified.payload))
          => ~verified.result
    /\ (webhook.done /\ webhook.processed_for_attribution)
          => webhook.signature = Hmac(SquareSecret, webhook.payload)

\* C28: for every webhook of type booking.created or booking.updated that
\* carries a booking id, with or without a customer_id,
\* process_booking_webhook runs _process_for_attribution and returns True;
\* other event types are ignored with True; a missing booking id gives
\* False.
C28_BookingWebhooksPrepared ==
    webhook.done =>
        IF webhook.payload.type \notin {"booking.created", "booking.updated"}
        THEN webhook.returned
        ELSE IF webhook.payload.id = <<>>
             THEN ~webhook.returned
             ELSE webhook.returned /\ webhook.processed_for_attribution

\* str.strip() of both ends
RECURSIVE lstrip(_)
lstrip(text) ==
    IF text # <<>> /\ Head(text) = " " THEN lstrip(Tail(text)) ELSE text

RECURSIVE rstrip(_)
rstrip(text) ==
    IF text # <<>> /\ text[Len(text)] = " " THEN rstrip(SubSeq(text, 1, Len(text) - 1)) ELSE text

\* the same address up to letter case and surrounding whitespace
SameAddress(e1, e2) == lstrip(rstrip(lower(e1))) = lstrip(rstrip(lower(e2)))

\* C17: for a fixed salt, two emails that differ only in letter case or in
\* leading or trailing whitespace get the same email_hash, and the same
\* email gets the same hash on every call.
C17_NormalizedEmailHash ==
    (/\ attribution.prepared /\ earlier.prepared
     /\ attribution.email # <<>> /\ earlier.email # <<>>
     /\ attribution.salt = earlier.salt
     /\ SameAddress(attribution.email, earlier.email))
        => attribution.identifiers.email_hash = earlier.identifiers.email_hash

(***************************************************************************)
(* backend/main.py: the cache and rate limit utilities                     *)
(***************************************************************************)
EmptyDict == [k \in {} |-> k]

\* d[key] = value
DictSet(d, key, value) ==
    [k \in DOMAIN d \cup {key} |-> IF k = key THEN value ELSE d[k]]

\* d.pop(key, None)
DictPop(d, key) == [k \in DOMAIN d \ {key} |-> d[k]]

\* hashlib.md5(f"{endpoint}:{params}".encode()).hexdigest()
get_cache_key(endpoint, params) == <<"md5", endpoint, ":", params>>

\* get_from_cache still serving an entry that is exactly ttl_seconds old
get_from_cache_at_ttl(c, ttl, cache_key, time, ttl_seconds) ==
    IF cache_key \in DOMAIN c
    THEN LET cached_time == IF cache_key \in DOMAIN ttl THEN ttl[cache_key] ELSE 0
         IN  IF time - cached_time <= ttl_seconds
             THEN [hit |-> TRUE, value |-> c[cache_key], cache |-> c, cache_ttl |-> ttl]
             ELSE [hit |-> FALSE, value |-> [status |-> 0],
                   cache |-> DictPop(c, cache_key), cache_ttl |-> DictPop(ttl, cache_key)]
    ELSE [hit |-> FALSE, value |-> [status |-> 0], cache |-> c, cache_ttl |-> ttl]

\* get_from_cache: the value if the key is cached and younger than
\* ttl_seconds; an expired key is removed from cache and cache_ttl
get_from_cache(c, ttl, cache_key, time, ttl_seconds) ==
    IF cache_key \in DOMAIN c
    THEN LET cached_time == IF cache_key \in DOMAIN ttl THEN ttl[cache_key] ELSE 0
         IN  IF time - cached_time < ttl_seconds
             THEN [hit |-> TRUE, value |-> c[cache_key], cache |-> c, cache_ttl |-> ttl]
             ELSE [hit |-> FALSE, value |-> [status |-> 0],
                   cache |-> DictPop(c, cache_key), cache_ttl |-> DictPop(ttl, cache_key)]
    ELSE [hit |-> FALSE, value |-> [status |-> 0], cache |-> c, cache_ttl |-> ttl]

\* the entries of cache_log: a set_cache call, a get_from_cache call made
\* by a dashboard request (0: by no request) with what it returned and
\* whether the key was absent from both dicts afterwards, a clear_cache call
SetEntry(cache_key, time, data, by) ==
    [op |-> "set", key |-> cache_key, ttl |-> 0, time |-> time, value |-> data,
     hit |-> FALSE, absent_after |-> FALSE, by |-> by]

GetEntry(c, ttl, cache_key, time, ttl_seconds, by) ==
    LET got == get_from_cache(c, ttl, cache_key, time, ttl_seconds)
    IN  [op |-> "get", key |-> cache_key, ttl |-> ttl_seconds, time |-> time,
         value |-> got.value, hit |-> got.hit,
         absent_after |-> cache_key \notin DOMAIN got.cache /\ cache_key \notin DOMAIN got.cache_ttl,
         by |-> by]

ClearEntry(time) ==
    [op |-> "clear", key |-> <<>>, ttl |-> 0, time |-> time, value |-> [status |-> 0],
     hit |-> FALSE, absent_after |-> TRUE, by |-> 0]

\* the times of a list that lie inside the window
RECURSIVE InsideWindow(_, _, _)
InsideWindow(times, current_time, window) ==
    IF times = <<>> THEN <<>>
    ELSE (IF current_time - Head(times) < window THEN <<Head(times)>> ELSE <<>>)
         \o InsideWindow(Tail(times), current_time, window)

\* check_rate_limit refusing only above the limit
check_rate_limit_above(store, client_ip, endpoint, current_time, limit, window) ==
    LET key == <<client_ip, ":", endpoint>>
        old == IF key \in DOMAIN store THEN store[key] ELSE <<>>
        recent == InsideWindow(old, current_time, window)
    IN  IF Len(recent) > limit
        THEN [allowed |-> FALSE, store |-> DictSet(store, key, recent)]
        ELSE [allowed |-> TRUE, store |-> DictSet(store, key, Append(recent, current_time))]

\* check_rate_limit recording the refused request as well
check_rate_limit_recording(store, client_ip, endpoint, current_time, limit, window) ==
    LET key == <<client_ip, ":", endpoint>>
        old == IF key \in DOMAIN store THEN store[key] ELSE <<>>
        recent == InsideWindow(old, current_time, window)
    IN  [allowed |-> Len(recent) < limit,
         store |-> DictSet(store, key, Append(recent, current_time))]

\* check_rate_limit: the key is created, old times are dropped, and the
\* request is refused at limit or recorded
check_rate_limit(store, client_ip, endpoint, current_time, limit, window) ==
    LET key == <<client_ip, ":", endpoint>>
        old == IF key \in DOMAIN store THEN store[key] ELSE <<>>
        recent == InsideWindow(old, current_time, window)
    IN  IF Len(recent) >= limit
        THEN [allowed |-> FALSE, store |-> DictSet(store, key, recent)]
        ELSE [allowed |-> TRUE, store |-> DictSet(store, key, Append(recent, current_time))]

\* the entry of rate_log for one check_rate_limit call
RateLogEntry(store, client_ip, endpoint, current_time, limit, window) ==
    LET key == <<client_ip, ":", endpoint>>
        checked == check_rate_limit(store, client_ip, endpoint, current_time, limit, window)
    IN  [key |-> key, time |-> current_time, limit |-> limit, window |-> window,
         allowed |-> checked.allowed,
         before |-> IF key \in DOMAIN store THEN store[key] ELSE <<>>,
         after |-> checked.store[key]]

\* seconds between two events of the dashboard
ClockSteps == {15}

Clients == {"10.0.0.1"}

\* the calls of cache_log made by no dashboard request
DirectCalls == Cardinality({i \in 1 .. Len(cache_log) : cache_log[i].by = 0})

\* values handed to set_cache, and the ttl_seconds of a reader other than
\* the dashboard, which reads its key with 30: the 300 of the other
\* get_from_cache call of main.py
CacheValues == {[status |-> 200, data_source |-> "first"], [status |-> 200, data_source |-> "second"]}
CacheTtls == {300}
CacheKeys == {get_cache_key("dashboard", "")}

\* set_cache(cache_key, data)
SetCache ==
    \E cache_key \in CacheKeys, data \in CacheValues :
        /\ DirectCalls < MaxCacheCalls
        /\ cache' = DictSet(cache, cache_key, data)
        /\ cache_ttl' = DictSet(cache_ttl, cache_key, clock)
        /\ cache_log' = Append(cache_log, SetEntry(cache_key, clock, data, 0))
        /\ UNCHANGED <<clock, rate_limit_store, requests, campaign, rate_log, models>>
        /\ UNCHANGED <<bookingVars, scorerVars, fetchVars, webhookVars, oauthVars, businessVars>>

\* get_from_cache(cache_key, ttl_seconds)
GetFromCache ==
    \E cache_key \in CacheKeys, ttl_seconds \in CacheTtls :
        LET got == get_from_cache(cache, cache_ttl, cache_key, clock, ttl_seconds)
        IN  /\ DirectCalls < MaxCacheCalls
            /\ cache' = got.cache
            /\ cache_ttl' = got.cache_ttl
            /\ cache_log' = Append(cache_log, GetEntry(cache, cache_ttl, cache_key, clock, ttl_seconds, 0))
            /\ UNCHANGED <<clock, rate_limit_store, requests, campaign, rate_log, models>>
            /\ UNCHANGED <<bookingVars, scorerVars, fetchVars, webhookVars, oauthVars, businessVars>>

\* clear_cache: both dicts are emptied
ClearCache ==
    /\ DirectCalls < MaxCacheCalls
    /\ cache' = EmptyDict
    /\ cache_ttl' = EmptyDict
    /\ cache_log' = Append(cache_log, ClearEntry(clock))
    /\ UNCHANGED <<clock, rate_limit_store, requests, campaign, rate_log, models>>
    /\ UNCHANGED <<bookingVars, scorerVars, fetchVars, webhookVars, oauthVars, businessVars>>

\* endpoints with their limit and window: the dashboard's, and a small one
RateLimitSample ==
    {[endpoint |-> "dashboard", limit |-> 60, window |-> 3600],
     [endpoint |-> "limited", limit |-> 2, window |-> 30]}

\* one check_rate_limit call at the current time
CheckRateLimit ==
    \E client_ip \in Clients, sample \in RateLimitSample :
        /\ Len(rate_log) < MaxCalls
        /\ rate_limit_store' = check_rate_limit(rate_limit_store, client_ip, sample.endpoint,
                                                clock, sample.limit, sample.window).store
        /\ rate_log' = Append(rate_log, RateLogEntry(rate_limit_store, client_ip, sample.endpoint,
                                                     clock, sample.limit, sample.window))
        /\ UNCHANGED <<clock, cache, cache_ttl, requests, campaign, cache_log, models>>
        /\ UNCHANGED <<bookingVars, scorerVars, fetchVars, webhookVars, oauthVars, businessVars>>

AdvanceClock ==
    \E step \in ClockSteps :
        /\ clock + step <= MaxClock
        /\ clock' = clock + step
        /\ UNCHANGED <<cache, cache_ttl, rate_limit_store, requests, campaign, rate_log, cache_log, models>>
        /\ UNCHANGED <<bookingVars, scorerVars, fetchVars, webhookVars, oauthVars, businessVars>>

(***************************************************************************)
(* backend/main.py: get_dashboard_data and get_campaign_performance        *)
(* Money is kept in cents, percentages in tenths.                          *)
(***************************************************************************)
\* the record a fetch builds from a 200 response whose list is empty
live_data_empty(platform) ==
    [live_data(platform) EXCEPT !.data = <<"live_empty", platform>>]

\* the campaigns of a record: the canned campaign of the two ad platforms,
\* one campaign of the sampled live response, none for an empty response;
\* the payment records have no 'campaigns' key
campaigns_of(record) ==
    IF record.source \notin {"facebook_ads", "google_ads"} THEN <<>>
    ELSE CASE record.data[1] = "canned" /\ record.source = "facebook_ads" ->
                  <<[spend |-> 184732, conversions |-> 23]>>
           [] record.data[1] = "canned" /\ record.source = "google_ads" ->
                  <<[spend |-> 134215, conversions |-> 31]>>
           [] record.data[1] = "live" /\ record.source = "facebook_ads" ->
                  <<[spend |-> 10000, conversions |-> 2]>>
           [] record.data[1] = "live" /\ record.source = "google_ads" ->
                  <<[spend |-> 5000, conversions |-> 1]>>
           [] OTHER -> <<>>

\* the total_revenue of a payment record
revenue_of(record) ==
    IF record.source \notin {"square_payments", "stripe_payments"} THEN 0
    ELSE CASE record.data[1] = "canned" /\ record.source = "square_payments" -> 30050
           [] record.data[1] = "canned" /\ record.source = "stripe_payments" -> 22500
           [] record.data[1] = "live" /\ record.source = "square_payments" -> 8000
           [] record.data[1] = "live" /\ record.source = "stripe_payments" -> 4000
           [] OTHER -> 0

\* data.get('summary', {}) with the defaults of summary.get(..., 0)
summary_of(record) ==
    LET campaigns == campaigns_of(record)
    IN  [total_spend |-> SumSeq([i \in 1 .. Len(campaigns) |-> campaigns[i].spend]),
         total_conversions |-> SumSeq([i \in 1 .. Len(campaigns) |-> campaigns[i].conversions]),
         total_revenue |-> revenue_of(record),
         attribution_confidence |-> record.attribution_confidence]

\* dicts get_all_platform_data returns: the fallback records, four live
\* records, and four live records of empty responses
PlatformDataSample ==
    {AllFallback,
     [p \in Platforms |-> live_data(p)],
     [p \in Platforms |-> live_data_empty(p)]}

\* the sums of the loop over platform_data.items()
RECURSIVE SumOver(_, _, _)
SumOver(data, keys, field) ==
    IF keys = <<>> THEN 0
    ELSE summary_of(data[Head(keys)])[field] + SumOver(data, Tail(keys), field)

\* attribution_scores of the dashboard: every summary has the key
dashboard_scores(data) ==
    [k \in 1 .. Len(platform_keys) |-> summary_of(data[platform_keys[k]]).attribution_confidence]

\* the dashboard_data dict; conversion_rate, accuracy and recovered are the
\* formatted values of the three divisions
dashboard_data(data, conversion_rate, accuracy, recovered) ==
    LET total_conversions == SumOver(data, platform_keys, "total_conversions")
    IN  [status |-> 200,
         total_interactions |-> (total_conversions * 65) \div 10,
         conversion_rate |-> IF total_conversions > 0 THEN conversion_rate ELSE 0,
         attribution_accuracy |-> IF dashboard_scores(data) # <<>> THEN accuracy ELSE 850,
         recovered_revenue |-> recovered,
         total_spend |-> SumOver(data, platform_keys, "total_spend"),
         total_conversions |-> total_conversions,
         active_sessions |-> (total_conversions * 3) \div 10,
         processing_queue |-> IF total_conversions > 0 THEN 0 ELSE 2,
         attribution_matches_today |-> (total_conversions * 12) \div 10,
         data_source |-> "real_api_integration"]

NoData == [p \in {} |-> p]

NewRequest == [pc |-> "new", data |-> NoData, response |-> [status |-> 0]]

\* get_dashboard_data up to its await: the rate limit check, then the
\* cache; a hit is answered at once, a miss goes on to get_all_platform_data
DashboardArrives ==
    \E r \in 1 .. MaxRequests, client_ip \in Clients :
        LET checked == check_rate_limit(rate_limit_store, client_ip, "dashboard", clock, 60, 3600)
            cached == get_from_cache(cache, cache_ttl, get_cache_key("dashboard", ""), clock, 30)
        IN  /\ requests[r].pc = "new"
            /\ rate_limit_store' = checked.store
            /\ rate_log' = Append(rate_log, RateLogEntry(rate_limit_store, client_ip, "dashboard",
                                                         clock, 60, 3600))
            /\ IF ~checked.allowed
               THEN /\ requests' = [requests EXCEPT ![r] =
                                       [pc |-> "done", data |-> NoData, response |-> [status |-> 429]]]
                    /\ UNCHANGED <<cache, cache_ttl, cache_log>>
               ELSE /\ cache' = cached.cache
                    /\ cache_ttl' = cached.cache_ttl
                    /\ cache_log' = Append(cache_log,
                                           GetEntry(cache, cache_ttl, get_cache_key("dashboard", ""),
                                                    clock, 30, r))
                    /\ requests' = [requests EXCEPT ![r] =
                                       IF cached.hit
                                       THEN [pc |-> "done", data |-> NoData, response |-> cached.value]
                                       ELSE [pc |-> "awaiting", data |-> NoData,
                                             response |-> [status |-> 0]]]
            /\ UNCHANGED <<clock, campaign, models>>
            /\ UNCHANGED <<bookingVars, scorerVars, fetchVars, webhookVars, oauthVars, businessVars>>

\* get_all_platform_data returns to a waiting request: the report is
\* computed, cached and answered (the function raises nothing and every
\* record has the keys read, so the except branch is not entered)
DashboardGenerates ==
    \E r \in 1 .. MaxRequests, data \in PlatformDataSample :
        LET total_conversions == SumOver(data, platform_keys, "total_conversions")
            total_revenue == SumOver(data, platform_keys, "total_revenue")
            scores == dashboard_scores(data)
        IN  \E conversion_rate \in RoundChoices(total_conversions * 100, 1500, 10),
               accuracy \in RoundChoices(SumSeq(scores), Len(scores), 1),
               recovered \in RoundChoices(total_revenue * 28, 10000, 1) :
                /\ requests[r].pc = "awaiting"
                /\ requests' = [requests EXCEPT ![r] =
                       [pc |-> "done", data |-> data,
                        response |-> dashboard_data(data, conversion_rate, accuracy, recovered)]]
                /\ cache' = DictSet(cache, get_cache_key("dashboard", ""), requests'[r].response)
                /\ cache_ttl' = DictSet(cache_ttl, get_cache_key("dashboard", ""), clock)
                /\ cache_log' = Append(cache_log, SetEntry(get_cache_key("dashboard", ""), clock,
                                                           requests'[r].response, r))
                /\ UNCHANGED <<clock, rate_limit_store, campaign, rate_log, models>>
                /\ UNCHANGED <<bookingVars, scorerVars, fetchVars, webhookVars, oauthVars, businessVars>>

\* the campaigns list built from the 'facebook' and the 'google' record
campaign_list(data) == campaigns_of(data["facebook"]) \o campaigns_of(data["google"])

\* attribution_scores of get_campaign_performance: one score per campaign
campaign_scores(data) ==
    [i \in 1 .. Len(campaigns_of(data["facebook"])) |-> data["facebook"].attribution_confidence]
    \o [i \in 1 .. Len(campaigns_of(data["google"])) |-> data["google"].attribution_confidence]

\* the answer of get_campaign_performance; accuracy is the formatted average
campaign_performance(data, accuracy) ==
    LET campaigns == campaign_list(data)
    IN  [status |-> 200,
         campaigns |-> campaigns,
         total_campaigns |-> Len(campaigns) + 5,
         active_campaigns |-> Len(campaigns),
         total_spend |-> SumSeq([i \in 1 .. Len(campaigns) |-> campaigns[i].spend]),
         total_conversions |-> SumSeq([i \in 1 .. Len(campaigns) |-> campaigns[i].conversions]),
         average_attribution_accuracy |-> IF campaign_scores(data) # <<>> THEN accuracy ELSE 918,
         data_source |-> "real_api_integration"]

NoCampaignReport == [data |-> NoData, response |-> [status |-> 0]]

\* get_campaign_performance: no rate limit, no cache
GetCampaignPerformance ==
    \E data \in PlatformDataSample :
        \E accuracy \in (IF campaign_scores(data) = <<>> THEN {0}
                         ELSE RoundChoices(SumSeq(campaign_scores(data)),
                                           Len(campaign_scores(data)), 1)) :
            /\ campaign' = [data |-> data, response |-> campaign_performance(data, accuracy)]
            /\ UNCHANGED <<clock, cache, cache_ttl, rate_limit_store, requests, rate_log, cache_log, models>>
            /\ UNCHANGED <<bookingVars, scorerVars, fetchVars, webhookVars, oauthVars, businessVars>>

\* the dict get_attribution_models returns on a cache miss
models_data ==
    [status |-> 200, default_model |-> "ml-enhanced",
     model_performance |-> [average_accuracy |-> "92.3%", cache_status |-> "miss"]]

\* get_attribution_models: a cached dict is marked under its 'performance'
\* key and returned (a dict without the key raises KeyError, answered 500);
\* on a miss the dict is returned at once, before the set_cache call that
\* is written after the return statement
GetAttributionModels ==
    LET cache_key == get_cache_key("attribution-models", "")
        cached == get_from_cache(cache, cache_ttl, cache_key, clock, 300)
        answer == IF ~cached.hit THEN models_data
                  ELSE IF "performance" \in DOMAIN cached.value
                       THEN [cached.value EXCEPT !.performance.cache_status = "hit"]
                       ELSE [status |-> 500]
    IN  /\ Len(models) < MaxModelRequests
        /\ cache' = IF cached.hit /\ "performance" \in DOMAIN cached.value
                    THEN DictSet(cached.cache, cache_key, answer)
                    ELSE cached.cache
        /\ cache_ttl' = cached.cache_ttl
        /\ cache_log' = Append(cache_log, GetEntry(cache, cache_ttl, cache_key, clock, 300, 0))
        /\ models' = Append(models, [time |-> clock, hit |-> cached.hit, response |-> answer])
        /\ UNCHANGED <<clock, rate_limit_store, requests, campaign, rate_log>>
        /\ UNCHANGED <<bookingVars, scorerVars, fetchVars, webhookVars, oauthVars, businessVars>>

\* the answer is marked as a cache hit
MarkedHit(response) ==
    \/ /\ "performance" \in DOMAIN response
       /\ response.performance.cache_status = "hit"
    \/ /\ "model_performance" \in DOMAIN response
       /\ response.model_performance.cache_status = "hit"

NothingToReport(data) ==
    /\ DOMAIN data = Platforms
    /\ \A p \in Platforms :
          /\ campaigns_of(data[p]) = <<>>
          /\ summary_of(data[p]).total_conversions = 0

\* C19: when the platform records hold no campaigns, no conversions and no
\* confidence values, the dashboard and the campaign-performance report
\* hold only zeros and empty collections (attribution accuracy 0,
\* processing queue 0, total campaigns 0): no number is a placeholder.
C19_NothingFabricated ==
    /\ \A r \in 1 .. MaxRequests :
          (requests[r].pc = "done" /\ NothingToReport(requests[r].data)) =>
              /\ requests[r].response.total_interactions = 0
              /\ requests[r].response.total_conversions = 0
              /\ requests[r].response.processing_queue = 0
              /\ requests[r].response.active_sessions = 0
              /\ requests[r].response.attribution_matches_today = 0
              /\ dashboard_scores(requests[r].data) = <<>>
                    => requests[r].response.attribution_accuracy = 0
    /\ NothingToReport(campaign.data) =>
          /\ campaign.response.campaigns = <<>>
          /\ campaign.response.total_campaigns = 0
          /\ campaign.response.total_conversions = 0
          /\ campaign_scores(campaign.data) = <<>>
                => campaign.response.average_attribution_accuracy = 0

\* C20: of the dashboard requests that missed the cache for the key, at
\* most one is regenerating the report (between its cache miss and its
\* set_cache, awaiting get_all_platform_data) at any time.
C20_OneRegeneration ==
    Cardinality({r \in 1 .. MaxRequests : requests[r].pc = "awaiting"}) <= 1

(***************************************************************************)
(* backend/app/api/v1/endpoints/oauth.py: the OAuth state and the callback *)
(***************************************************************************)
\* the keys of OAUTH_CONFIGS
OAuthProviders == {"facebook", "google", "square", "stripe"}

\* the state string: base64 of the JSON of state_data; uuid4 gives every
\* call a nonce of its own
StateString(provider, business_id, timestamp, nonce) ==
    <<"b64", provider, business_id, timestamp, nonce>>

\* generate_oauth_state: oauth_states after the call
generate_oauth_state(states, provider, business_id, time, nonce) ==
    DictSet(states, StateString(provider, business_id, time, nonce),
            [data |-> [provider |-> provider, business_id |-> business_id,
                       timestamp |-> time, nonce |-> nonce],
             expires_at |-> time + 600])

NoStateData == [provider |-> "", business_id |-> "", timestamp |-> 0, nonce |-> 0]

\* validate_oauth_state expiring a state at its expires_at already
validate_oauth_state_early(states, state, time) ==
    IF state \notin DOMAIN states
    THEN [found |-> FALSE, data |-> NoStateData, states |-> states]
    ELSE IF time >= states[state].expires_at
         THEN [found |-> FALSE, data |-> NoStateData, states |-> DictPop(states, state)]
         ELSE [found |-> TRUE, data |-> states[state].data, states |-> states]

\* validate_oauth_state: None for an unknown state and for an expired one,
\* which is removed; the stored data otherwise
validate_oauth_state(states, state, time) ==
    IF state \notin DOMAIN states
    THEN [found |-> FALSE, data |-> NoStateData, states |-> states]
    ELSE IF time > states[state].expires_at
         THEN [found |-> FALSE, data |-> NoStateData, states |-> DictPop(states, state)]
         ELSE [found |-> TRUE, data |-> states[state].data, states |-> states]

NoError == ""

\* oauth_callback leaving the state in oauth_states
oauth_callback_keeping(states, state, error, time) ==
    LET validated == validate_oauth_state(states, state, time)
    IN  IF error # NoError
        THEN [status |-> 302, url |-> <<"oauth_error", error>>, connected |-> FALSE,
              provider |-> "", states |-> states]
        ELSE IF ~validated.found
        THEN [status |-> 302, url |-> <<"oauth_error", "invalid_state">>, connected |-> FALSE,
              provider |-> "", states |-> validated.states]
        ELSE IF validated.data.provider \notin OAuthProviders
        THEN [status |-> 400, url |-> <<>>, connected |-> FALSE,
              provider |-> "", states |-> validated.states]
        ELSE [status |-> 302, url |-> <<"oauth_success", validated.data.provider>>,
              connected |-> TRUE, provider |-> validated.data.provider,
              states |-> validated.states]

\* oauth_callback: a callback that carries an error is redirected with it
\* before the state is looked at; an invalid state is redirected with
\* invalid_state; otherwise the state is removed and the connection
\* reported
oauth_callback(states, state, error, time) ==
    LET validated == validate_oauth_state(states, state, time)
    IN  IF error # NoError
        THEN [status |-> 302, url |-> <<"oauth_error", error>>, connected |-> FALSE,
              provider |-> "", states |-> states]
        ELSE IF ~validated.found
        THEN [status |-> 302, url |-> <<"oauth_error", "invalid_state">>, connected |-> FALSE,
              provider |-> "", states |-> validated.states]
        ELSE IF validated.data.provider \notin OAuthProviders
        THEN [status |-> 400, url |-> <<>>, connected |-> FALSE,
              provider |-> "", states |-> validated.states]
        ELSE [status |-> 302, url |-> <<"oauth_success", validated.data.provider>>,
              connected |-> TRUE, provider |-> validated.data.provider,
              states |-> DictPop(validated.states, state)]

OAuthClockSteps == {300}

OAuthTick ==
    \E step \in OAuthClockSteps :
        /\ oauth_clock + step <= MaxOAuthClock
        /\ oauth_clock' = oauth_clock + step
        /\ UNCHANGED <<oauth_states, generated, oauth_log>>
        /\ UNCHANGED <<bookingVars, scorerVars, fetchVars, webhookVars, dashboardVars, businessVars>>

\* providers a connection is asked for: a supported one and one that
\* initiate_oauth_connection refuses
RequestedProviders == {"facebook", "paypal"}

\* initiate_oauth_connection: a supported provider gets a state
InitiateOAuthConnection ==
    \E provider \in RequestedProviders :
        /\ Cardinality(generated) < MaxStates
        /\ IF provider \in OAuthProviders
           THEN /\ oauth_states' = generate_oauth_state(oauth_states, provider, "business-1",
                                                         oauth_clock, Cardinality(generated) + 1)
                /\ generated' = generated \cup
                       {StateString(provider, "business-1", oauth_clock, Cardinality(generated) + 1)}
           ELSE UNCHANGED <<oauth_states, generated>>
        /\ UNCHANGED <<oauth_log, oauth_clock>>
        /\ UNCHANGED <<bookingVars, scorerVars, fetchVars, webhookVars, dashboardVars, businessVars>>

\* a state that generate_oauth_state never returned
ForgedState == StateString("facebook", "business-1", 0, 0)

\* states a caller may present
PresentedStates == generated \cup {ForgedState}

\* the error parameter of a callback: absent, or what a provider reports
CallbackErrors == {NoError, "access_denied"}

\* validate_oauth_state(state), called on its own
ValidateOAuthState ==
    \E state \in PresentedStates :
        LET validated == validate_oauth_state(oauth_states, state, oauth_clock)
        IN  /\ Len(oauth_log) < MaxOAuthCalls
            /\ oauth_states' = validated.states
            /\ oauth_log' = Append(oauth_log,
                   [call |-> "validate", state |-> state, error |-> NoError, time |-> oauth_clock,
                    found |-> validated.found, data |-> validated.data,
                    status |-> 0, url |-> <<>>, connected |-> FALSE,
                    stored_after |-> state \in DOMAIN validated.states])
            /\ UNCHANGED <<generated, oauth_clock>>
            /\ UNCHANGED <<bookingVars, scorerVars, fetchVars, webhookVars, dashboardVars, businessVars>>

\* GET /oauth/callback; the handler has no await, so it runs undivided
OAuthCallback ==
    \E state \in PresentedStates, error \in CallbackErrors :
        LET answer == oauth_callback(oauth_states, state, error, oauth_clock)
        IN  /\ Len(oauth_log) < MaxOAuthCalls
            /\ oauth_states' = answer.states
            /\ oauth_log' = Append(oauth_log,
                   [call |-> "callback", state |-> state, error |-> error, time |-> oauth_clock,
                    found |-> answer.connected, data |-> NoStateData,
                    status |-> answer.status, url |-> answer.url, connected |-> answer.connected,
                    stored_after |-> state \in DOMAIN answer.states])
            /\ UNCHANGED <<generated, oauth_clock>>
            /\ UNCHANGED <<bookingVars, scorerVars, fetchVars, webhookVars, dashboardVars, businessVars>>

(***************************************************************************)
(* Claims about the OAuth state                                            *)
(***************************************************************************)
\* a callback before call i completed successfully for the state of call i
Consumed(i) ==
    \E j \in 1 .. i - 1 :
        /\ oauth_log[j].call = "callback"
        /\ oauth_log[j].state = oauth_log[i].state
        /\ oauth_log[j].connected

\* the state of call i was generated at most 600 seconds before the call
\* and has not been consumed
GeneratedAndUnused(i) ==
    /\ oauth_log[i].state \in generated
    /\ oauth_log[i].time - oauth_log[i].state[4] <= 600
    /\ ~Consumed(i)

\* validate_oauth_state returns the stored provider and business exactly
\* for a state generated at most 600 seconds earlier and not consumed
ValidatedExactly(i) ==
    /\ oauth_log[i].found <=> GeneratedAndUnused(i)
    /\ oauth_log[i].found =>
          /\ oauth_log[i].data.provider = oauth_log[i].state[2]
          /\ oauth_log[i].data.business_id = oauth_log[i].state[3]

InvalidStateUrl == <<"oauth_error", "invalid_state">>

\* C25 as stated: validate_oauth_state(s) returns the stored provider and
\* business data exactly when s was generated at most 600 seconds earlier
\* and has not been consumed; for every other s oauth_callback redirects
\* with oauth_error=invalid_state and reports no successful connection.
C25_OnlyFreshStates ==
    \A i \in 1 .. Len(oauth_log) :
        /\ oauth_log[i].call = "validate" => ValidatedExactly(i)
        /\ (oauth_log[i].call = "callback" /\ ~GeneratedAndUnused(i)) =>
              /\ oauth_log[i].url = InvalidStateUrl
              /\ ~oauth_log[i].connected

\* C25 amended: the same, where a callback with any other s reports no
\* successful connection and redirects with oauth_error=invalid_state
\* unless it carries an error parameter, which is then the oauth_error of
\* the redirect.
C25_OnlyFreshStatesConnect ==
    \A i \in 1 .. Len(oauth_log) :
        /\ oauth_log[i].call = "validate" => ValidatedExactly(i)
        /\ (oauth_log[i].call = "callback" /\ ~GeneratedAndUnused(i)) =>
              /\ oauth_log[i].url = IF oauth_log[i].error = NoError THEN InvalidStateUrl
                                    ELSE <<"oauth_error", oauth_log[i].error>>
              /\ ~oauth_log[i].connected

\* a state was validated exactly 600 seconds after it was generated, and
\* a callback without an error parameter presented a state too old
C25_Witness ==
    /\ \E i \in 1 .. Len(oauth_log) :
          /\ oauth_log[i].call = "validate" /\ oauth_log[i].found
          /\ oauth_log[i].time - oauth_log[i].state[4] = 600
    /\ \E i \in 1 .. Len(oauth_log) :
          /\ oauth_log[i].call = "callback" /\ oauth_log[i].error = NoError
          /\ oauth_log[i].state \in generated
          /\ oauth_log[i].time - oauth_log[i].state[4] > 600

\* C26 as stated: once oauth_callback has completed successfully for s, s
\* is no longer in oauth_states and every later callback that carries s is
\* answered with invalid_state.
C26_OneConnectionPerState ==
    \A i \in 1 .. Len(oauth_log) :
        (oauth_log[i].call = "callback" /\ oauth_log[i].connected) =>
            /\ ~oauth_log[i].stored_after
            /\ oauth_log[i].state \notin DOMAIN oauth_states
            /\ \A j \in i + 1 .. Len(oauth_log) :
                  (oauth_log[j].call = "callback" /\ oauth_log[j].state = oauth_log[i].state) =>
                      oauth_log[j].url = InvalidStateUrl

\* C26 amended: once oauth_callback has completed successfully for s, s is
\* no longer in oauth_states and no later callback that carries s reports
\* a connection: it is answered with invalid_state, or with the error it
\* carries in its error parameter.
C26_OneConnectionPerStateOnly ==
    \A i \in 1 .. Len(oauth_log) :
        (oauth_log[i].call = "callback" /\ oauth_log[i].connected) =>
            /\ ~oauth_log[i].stored_after
            /\ oauth_log[i].state \notin DOMAIN oauth_states
            /\ \A j \in i + 1 .. Len(oauth_log) :
                  (oauth_log[j].call = "callback" /\ oauth_log[j].state = oauth_log[i].state) =>
                      /\ ~oauth_log[j].connected
                      /\ oauth_log[j].url = IF oauth_log[j].error = NoError THEN InvalidStateUrl
                                            ELSE <<"oauth_error", oauth_log[j].error>>

\* a state was used for a connection and presented again, without an error
\* parameter, while it was not yet 600 seconds old
C26_Witness ==
    \E i, j \in 1 .. Len(oauth_log) :
        /\ i < j
        /\ oauth_log[i].call = "callback" /\ oauth_log[i].connected
        /\ oauth_log[j].call = "callback" /\ oauth_log[j].state = oauth_log[i].state
        /\ oauth_log[j].error = NoError
        /\ oauth_log[j].time - oauth_log[j].state[4] <= 600

(***************************************************************************)
(* backend/app/api/v1/endpoints/business.py: the business settings         *)
(***************************************************************************)
valid_currencies == {"USD", "EUR", "GBP", "CAD"}

valid_timezones ==
    {"America/New_York", "America/Chicago", "America/Denver", "America/Los_Angeles"}

\* timezone_mapping.get(timezone, timezone)
timezone_mapping(timezone) ==
    CASE timezone = "Eastern Time (ET)" -> "America/New_York"
      [] timezone = "Central Time (CT)" -> "America/Chicago"
      [] timezone = "Mountain Time (MT)" -> "America/Denver"
      [] timezone = "Pacific Time (PT)" -> "America/Los_Angeles"
      [] OTHER -> timezone

\* save_business_settings storing the settings before it looks at the
\* timezone
save_business_settings_unchecked(store, business_id, settings, time) ==
    LET actual_timezone == timezone_mapping(settings.timezone)
        settings_data == [business_name |-> settings.business_name,
                          default_currency |-> settings.default_currency,
                          timezone |-> actual_timezone,
                          industry |-> settings.industry,
                          last_updated |-> time,
                          updated_by |-> "api"]
    IN  IF settings.default_currency \notin valid_currencies
        THEN [status |-> 400, detail |-> "Invalid currency", store |-> store]
        ELSE IF actual_timezone \notin valid_timezones
        THEN [status |-> 400, detail |-> "Invalid timezone",
              store |-> DictSet(store, business_id, settings_data)]
        ELSE [status |-> 200, detail |-> "saved",
              store |-> DictSet(store, business_id, settings_data)]

\* save_business_settings: the currency and the mapped timezone are
\* checked, each HTTPException(400) passes "except HTTPException: raise",
\* and only then are the settings stored with the time of the call
save_business_settings(store, business_id, settings, time) ==
    LET actual_timezone == timezone_mapping(settings.timezone)
        settings_data == [business_name |-> settings.business_name,
                          default_currency |-> settings.default_currency,
                          timezone |-> actual_timezone,
                          industry |-> settings.industry,
                          last_updated |-> time,
                          updated_by |-> "api"]
    IN  IF settings.default_currency \notin valid_currencies
        THEN [status |-> 400, detail |-> "Invalid currency", store |-> store]
        ELSE IF actual_timezone \notin valid_timezones
        THEN [status |-> 400, detail |-> "Invalid timezone", store |-> store]
        ELSE [status |-> 200, detail |-> "saved",
              store |-> DictSet(store, business_id, settings_data)]

\* get_business_settings: the default settings, stamped with the time of
\* the call, for a business that is not stored; the stored ones otherwise
get_business_settings(store, business_id, time) ==
    IF business_id \notin DOMAIN store
    THEN [business_id |-> business_id,
          settings |-> [business_name |-> "Your Business Name", default_currency |-> "USD",
                        timezone |-> "America/New_York", industry |-> "appointment_booking"],
          last_updated |-> time,
          status |-> "default"]
    ELSE [business_id |-> business_id,
          settings |-> [business_name |-> store[business_id].business_name,
                        default_currency |-> store[business_id].default_currency,
                        timezone |-> store[business_id].timezone,
                        industry |-> store[business_id].industry],
          last_updated |-> store[business_id].last_updated,
          status |-> "loaded"]

\* settings a client sends: supported and unsupported currencies, zone
\* names, display names and an unsupported zone
SettingsSample ==
    {[business_name |-> "Shop", default_currency |-> currency, timezone |-> timezone,
      industry |-> "appointment_booking"] :
        currency \in {"EUR", "JPY"},
        timezone \in {"America/Chicago", "Pacific Time (PT)", "Europe/Paris"}}

NoSettings == [business_name |-> "", default_currency |-> "", timezone |-> "", industry |-> ""]

\* POST /business/settings
SaveBusinessSettings ==
    \E business_id \in {"business-1"}, settings \in SettingsSample :
        LET saved == save_business_settings(business_settings_store, business_id, settings, clock)
        IN  /\ Len(settings_log) < MaxSettingsCalls
            /\ business_settings_store' = saved.store
            /\ settings_log' = Append(settings_log,
                   [call |-> "save", business_id |-> business_id, settings |-> settings,
                    time |-> clock, status |-> saved.status,
                    response |-> [detail |-> saved.detail],
                    store_before |-> business_settings_store, store_after |-> saved.store])
            /\ UNCHANGED <<bookingVars, scorerVars, fetchVars, webhookVars, dashboardVars, oauthVars>>

\* GET /business/settings
GetBusinessSettings ==
    \E business_id \in {"business-1"} :
        /\ Len(settings_log) < MaxSettingsCalls
        /\ settings_log' = Append(settings_log,
               [call |-> "get", business_id |-> business_id, settings |-> NoSettings,
                time |-> clock, status |-> 200,
                response |-> get_business_settings(business_settings_store, business_id, clock),
                store_before |-> business_settings_store,
                store_after |-> business_settings_store])
        /\ UNCHANGED business_settings_store
        /\ UNCHANGED <<bookingVars, scorerVars, fetchVars, webhookVars, dashboardVars, oauthVars>>

(***************************************************************************)
(* Claims about the business settings                                      *)
(***************************************************************************)
\* the display names and the zones they stand for
DisplayNames ==
    {<<"Eastern Time (ET)", "America/New_York">>, <<"Central Time (CT)", "America/Chicago">>,
     <<"Mountain Time (MT)", "America/Denver">>, <<"Pacific Time (PT)", "America/Los_Angeles">>}

\* call i is a save with a currency outside the four supported ones or
\* with a timezone that is neither a supported zone nor one of their
\* display names
Unsupported(i) ==
    /\ settings_log[i].call = "save"
    /\ \/ settings_log[i].settings.default_currency \notin {"USD", "EUR", "GBP", "CAD"}
       \/ /\ settings_log[i].settings.timezone \notin {pair[1] : pair \in DisplayNames}
          /\ settings_log[i].settings.timezone \notin {pair[2] : pair \in DisplayNames}

\* g and h are get_business_settings calls for the business of the save i,
\* g before it and h after it, with no other save in between
AroundRejected(g, i, h) ==
    /\ g < i /\ i < h
    /\ Unsupported(i)
    /\ settings_log[g].call = "get" /\ settings_log[h].call = "get"
    /\ settings_log[g].business_id = settings_log[i].business_id
    /\ settings_log[h].business_id = settings_log[i].business_id
    /\ \A k \in g + 1 .. h - 1 : k # i => ~(settings_log[k].call = "save" /\ settings_log[k].status = 200)

\* C29 as stated: a save with an unsupported currency or timezone is
\* rejected with 400 and leaves business_settings_store unchanged, and a
\* later get_business_settings for the business returns what it returned
\* before the rejected save.
C29_RejectedSaveChangesNothing ==
    /\ \A i \in 1 .. Len(settings_log) :
          Unsupported(i) =>
              /\ settings_log[i].status = 400
              /\ settings_log[i].store_after = settings_log[i].store_before
    /\ \A g, i, h \in 1 .. Len(settings_log) :
          AroundRejected(g, i, h) => settings_log[h].response = settings_log[g].response

\* C29 amended: the same, where the later get_business_settings returns
\* the settings and the status it returned before, and the same
\* last_updated when settings are stored for the business; for a business
\* without stored settings last_updated is the time of each call.
C29_RejectedSaveChangesNoSettings ==
    /\ \A i \in 1 .. Len(settings_log) :
          Unsupported(i) =>
              /\ settings_log[i].status = 400
              /\ settings_log[i].store_after = settings_log[i].store_before
    /\ \A g, i, h \in 1 .. Len(settings_log) :
          AroundRejected(g, i, h) =>
              /\ settings_log[h].response.settings = settings_log[g].response.settings
              /\ settings_log[h].response.status = settings_log[g].response.status
              /\ settings_log[h].response.last_updated =
                    IF settings_log[g].response.status = "loaded"
                    THEN settings_log[g].response.last_updated
                    ELSE settings_log[h].time

\* stored settings were read, a save with an unsupported timezone followed,
\* and the settings were read again
C29_Witness ==
    \E g, i, h \in 1 .. Len(settings_log) :
        /\ AroundRejected(g, i, h)
        /\ settings_log[g].response.status = "loaded"
        /\ settings_log[i].settings.default_currency = "EUR"

(***************************************************************************)
(* Claims about the rate limit                                             *)
(***************************************************************************)
\* the accepted calls of a key with a time in the window (t - window, t]
AcceptedInWindow(key, t, window) ==
    {i \in 1 .. Len(rate_log) :
        /\ rate_log[i].key = key
        /\ rate_log[i].allowed
        /\ rate_log[i].time <= t
        /\ t - rate_log[i].time < window}

\* C21: after any sequence of check_rate_limit calls at non-decreasing
\* times, for every key and every instant t, at most `limit` calls of the
\* key returned True with a time in the window of length `window` that
\* ends at t (the instants later than t - window, up to t).
C21_AtMostLimitPerWindow ==
    \A i \in 1 .. Len(rate_log), t \in 0 .. MaxClock :
        Cardinality(AcceptedInWindow(rate_log[i].key, t, rate_log[i].window)) <= rate_log[i].limit

\* a key was refused with its window full, and accepted again later
C21_Witness ==
    \E i, j \in 1 .. Len(rate_log) :
        /\ i < j
        /\ rate_log[i].key = rate_log[j].key
        /\ ~rate_log[i].allowed
        /\ Cardinality(AcceptedInWindow(rate_log[i].key, rate_log[i].time, rate_log[i].window))
              = rate_log[i].limit
        /\ rate_log[j].allowed

\* the oldest accepted call of the key that counts against call i
OldestCounted(i) ==
    LET counted == {j \in 1 .. i - 1 :
                       /\ rate_log[j].key = rate_log[i].key
                       /\ rate_log[j].allowed
                       /\ rate_log[i].time - rate_log[j].time < rate_log[i].window}
    IN  CHOOSE j \in counted : \A other \in counted : rate_log[j].time <= rate_log[other].time

\* call j is the first call of the blocked key, after the refused call i,
\* made at least `window` seconds after the oldest accepted call counted
\* against call i
FirstAfterWindow(i, j) ==
    /\ i < j
    /\ rate_log[i].key = rate_log[j].key
    /\ ~rate_log[i].allowed
    /\ rate_log[i].limit > 0
    /\ rate_log[j].time - rate_log[OldestCounted(i)].time >= rate_log[j].window
    /\ \A between \in i + 1 .. j - 1 :
          rate_log[between].key = rate_log[i].key =>
              rate_log[between].time - rate_log[OldestCounted(i)].time < rate_log[j].window

\* C22: a check_rate_limit call that returns False adds no time to
\* rate_limit_store, and a blocked key is accepted again on its first call
\* made at least `window` seconds after its oldest accepted request.
C22_RefusalRecordsNothing ==
    /\ \A i \in 1 .. Len(rate_log) :
          ~rate_log[i].allowed =>
              /\ Len(rate_log[i].after) <= Len(rate_log[i].before)
              /\ \A k \in 1 .. Len(rate_log[i].after) :
                    \E l \in 1 .. Len(rate_log[i].before) :
                        rate_log[i].after[k] = rate_log[i].before[l]
    /\ \A i, j \in 1 .. Len(rate_log) :
          FirstAfterWindow(i, j) => rate_log[j].allowed

\* a key was refused and its first call a window after its oldest accepted
\* request was made
C22_Witness ==
    \E i, j \in 1 .. Len(rate_log) : FirstAfterWindow(i, j) /\ rate_log[j].allowed

(***************************************************************************)
(* Claims about the cache                                                  *)
(***************************************************************************)
\* the last set_cache call for the key of call i before it, 0 if none
LastSet(i) ==
    LET sets == {j \in 1 .. i - 1 : cache_log[j].op = "set" /\ cache_log[j].key = cache_log[i].key}
    IN  IF sets = {} THEN 0 ELSE CHOOSE j \in sets : \A other \in sets : other <= j

\* the key of call i was set less than the ttl of call i earlier and no
\* clear_cache ran since
SetAndNotCleared(i) ==
    /\ LastSet(i) # 0
    /\ cache_log[i].time - cache_log[LastSet(i)].time < cache_log[i].ttl
    /\ \A c \in LastSet(i) + 1 .. i - 1 : cache_log[c].op # "clear"

\* a get_from_cache call for the key of call i, made since the key was
\* last set, found the entry expired under its own ttl
FoundExpiredSince(i) ==
    \E g \in LastSet(i) + 1 .. i - 1 :
        /\ cache_log[g].op = "get"
        /\ cache_log[g].key = cache_log[i].key
        /\ cache_log[g].time - cache_log[LastSet(i)].time >= cache_log[g].ttl

\* what the claim says of the get_from_cache call i when `fresh` is its
\* condition for a value: the value last set is returned exactly then,
\* otherwise the key is absent afterwards; a dashboard request that made
\* the call is answered with the value and has not fetched platform data
AnswersWhen(i, fresh) ==
    /\ cache_log[i].hit <=> fresh
    /\ cache_log[i].hit => cache_log[i].value = cache_log[LastSet(i)].value
    /\ ~cache_log[i].hit => cache_log[i].absent_after
    /\ (fresh /\ cache_log[i].by # 0) =>
          /\ requests[cache_log[i].by].pc = "done"
          /\ requests[cache_log[i].by].data = NoData
          /\ requests[cache_log[i].by].response = cache_log[LastSet(i)].value

\* C23 as stated: get_from_cache(k, ttl) returns the value most recently
\* set for k exactly when that set happened less than ttl seconds earlier
\* and no clear_cache ran since; otherwise it returns None and k is absent
\* from cache and cache_ttl afterwards; a dashboard request less than 30
\* seconds after a generated report returns it without fetching.
C23_ValueWhileFresh ==
    \A i \in 1 .. Len(cache_log) :
        cache_log[i].op = "get" => AnswersWhen(i, SetAndNotCleared(i))

\* C23 amended: the same, where the value is returned exactly when the set
\* happened less than ttl seconds earlier, no clear_cache ran since and no
\* get_from_cache call for k since that set found the entry expired under
\* its own ttl_seconds (such a call removes the entry for every caller).
C23_ValueWhileFreshAndKept ==
    \A i \in 1 .. Len(cache_log) :
        cache_log[i].op = "get" =>
            AnswersWhen(i, SetAndNotCleared(i) /\ ~FoundExpiredSince(i))

\* a dashboard request was answered from the cache, and a call found an
\* entry expired
C23_Witness ==
    /\ \E i \in 1 .. Len(cache_log) :
          /\ cache_log[i].op = "get" /\ cache_log[i].hit /\ cache_log[i].by # 0
    /\ \E i \in 1 .. Len(cache_log) :
          /\ cache_log[i].op = "get" /\ ~cache_log[i].hit /\ LastSet(i) # 0
          /\ \A c \in LastSet(i) + 1 .. i - 1 : cache_log[c].op = "set"

(***************************************************************************)
(* Initial state and specifications                                        *)
(***************************************************************************)
Init ==
    /\ tracked = {}
    /\ interaction = NoResponse
    /\ lookup = {}
    /\ now = 0
    /\ booking = [status |-> 0, booking_id |-> "", booking_value |-> 0, at |-> 0,
                  matched_touchpoints |-> <<>>, attribution_score |-> 0,
                  attribution_status |-> ""]
    /\ events = <<>>
    /\ scored = NotScored
    /\ prior = NotScored
    /\ tokens = {}
    /\ pc = "idle"
    /\ tasks = <<>>
    /\ fetches = <<>>
    /\ calls = NoCalls
    /\ platform_data = [p \in {} |-> p]
    /\ report = NoReport
    /\ direct = NoDirect
    /\ kept = NoKept
    /\ signature_key = NotSet
    /\ hash_salt = DefaultSalt
    /\ verified = NotVerified
    /\ webhook = NoWebhook
    /\ attribution = NotPrepared
    /\ earlier = NotPrepared
    /\ clock = 0
    /\ cache = EmptyDict
    /\ cache_ttl = EmptyDict
    /\ rate_limit_store = EmptyDict
    /\ requests = [r \in 1 .. MaxRequests |-> NewRequest]
    /\ campaign = NoCampaignReport
    /\ rate_log = <<>>
    /\ cache_log = <<>>
    /\ models = <<>>
    /\ oauth_states = EmptyDict
    /\ generated = {}
    /\ oauth_log = <<>>
    /\ oauth_clock = 0
    /\ business_settings_store = EmptyDict
    /\ settings_log = <<>>

NextBooking == TrackInteraction \/ TrackBooking

SpecBooking == Init /\ [][NextBooking]_vars

NextStore == Tick \/ RecordInteraction \/ QueryByBooking

SpecStore == Init /\ [][NextStore]_vars

NextScorer == ScoreNoEvents \/ ScoreWithEvent

SpecScorer == Init /\ [][NextScorer]_vars

NextFetch == LoadEnvironment \/ DirectFetch \/ GetAllPlatformData \/ IssueCall \/ CompleteCall \/ Gather

SpecFetch == Init /\ [][NextFetch]_vars

NextCanned == DirectFetch \/ KeepReturned \/ ChangeReturned

SpecCanned == Init /\ [][NextCanned]_vars

NextWebhook == LoadSquareEnvironment \/ VerifyWebhookSignature \/ ProcessBookingWebhook

SpecWebhook == Init /\ [][NextWebhook]_vars

NextHash == LoadSquareEnvironment \/ ProcessForAttribution

SpecHash == Init /\ [][NextHash]_vars

NextDashboard == AdvanceClock \/ DashboardArrives \/ DashboardGenerates \/ GetCampaignPerformance

SpecDashboard == Init /\ [][NextDashboard]_vars

NextRateLimit == AdvanceClock \/ CheckRateLimit

SpecRateLimit == Init /\ [][NextRateLimit]_vars

NextCache == AdvanceClock \/ SetCache \/ GetFromCache \/ ClearCache \/ DashboardArrives

SpecCache == Init /\ [][NextCache]_vars

NextModels == AdvanceClock \/ GetAttributionModels

SpecModels == Init /\ [][NextModels]_vars

NextOAuth == OAuthTick \/ InitiateOAuthConnection \/ ValidateOAuthState \/ OAuthCallback

SpecOAuth == Init /\ [][NextOAuth]_vars

NextBusiness == AdvanceClock \/ SaveBusinessSettings \/ GetBusinessSettings

SpecBusiness == Init /\ [][NextBusiness]_vars

====
